---- MODULE Spec2Model ----
(***************************************************************************)
(* banana-pen: the worker's Volcengine request signer                      *)
(* (src/src/worker/index.ts, signVolcengineRequest) and the /api/ocr       *)
(* handler that calls it and sends the signed request.                     *)
(*                                                                         *)
(* Strings are TLA+ strings (TLC concatenates them with \o and cuts them   *)
(* with SubSeq).  SHA-256 and HMAC-SHA256 are free constructors: the       *)
(* digest of d is the byte string "sha256<d>", the MAC of d under key k    *)
(* is "hmac<k|d>", and the hex rendering of a byte string b is "hex<b>".   *)
(* The characters < | > occur in no input, so the constructors are         *)
(* collision free.                                                         *)
(***************************************************************************)
EXTENDS Integers, Sequences, FiniteSets, TLC

\* ------------------------------------------------------------------------
\* JavaScript values and strings
\* ------------------------------------------------------------------------

\* The JavaScript value undefined.
Undefined == [t |-> "undefined"]

\* A JavaScript string value.
JsStr(s) == [t |-> "string", v |-> s]

\* An ArrayBuffer holding the bytes b.
JsBuf(b) == [t |-> "buffer", bytes |-> b]

\* The JavaScript value null.
Null == [t |-> "null"]

\* A JavaScript number value.
JsNum(n) == [t |-> "number", v |-> n]

\* A JavaScript array value.
JsArr(a) == [t |-> "array", v |-> a]

\* ToBoolean: undefined, null, the empty string and 0 are falsy.
Truthy(x) ==
    \/ x.t \in {"buffer", "array", "object"}
    \/ (x.t = "string" /\ x.v # "")
    \/ (x.t = "number" /\ x.v # 0)

\* a || b
JsOr(a, b) == IF Truthy(a) THEN a ELSE b

\* ToString, as a template literal `${x}` applies it.
TemplateStr(x) == IF x.t = "undefined" THEN "undefined" ELSE x.v

\* The i-th character of s, as a one-character string.
CharAt(s, i) == SubSeq(s, i, i)

\* Printable ASCII in code order: 32 (space) to 95 (_), and 97 (a) to 126 (~).
\* Code 96, the backquote, cannot be written in a TLA+ string and occurs in
\* no string of the model.
AsciiLow == " !\"#$%&'()*+,-./0123456789:;<=>?@ABCDEFGHIJKLMNOPQRSTUVWXYZ[\\]^_"

AsciiHigh == "abcdefghijklmnopqrstuvwxyz{|}~"

\* The UTF-16 code unit (= the UTF-8 byte) of a printable ASCII character.
CharCode(c) ==
    IF \E i \in 1..Len(AsciiLow) : CharAt(AsciiLow, i) = c
    THEN 31 + (CHOOSE i \in 1..Len(AsciiLow) : CharAt(AsciiLow, i) = c)
    ELSE 96 + (CHOOSE i \in 1..Len(AsciiHigh) : CharAt(AsciiHigh, i) = c)

Digits == {"0", "1", "2", "3", "4", "5", "6", "7", "8", "9"}

IsDigits(s) == \A i \in 1..Len(s) : CharAt(s, i) \in Digits

\* Array.prototype.join on an array of strings.
RECURSIVE Join(_, _)
Join(parts, sep) ==
    IF Len(parts) = 0 THEN ""
    ELSE IF Len(parts) = 1 THEN parts[1]
    ELSE parts[1] \o sep \o Join(Tail(parts), sep)

\* String.prototype.substring(0, n): n is clamped to the length.
Substring0(s, n) == SubSeq(s, 1, IF n < Len(s) THEN n ELSE Len(s))

\* Mutant of StripDashColon: the pattern is /-/g, and the colons stay.
RECURSIVE StripDashOnly(_)
StripDashOnly(s) ==
    IF s = "" THEN ""
    ELSE IF CharAt(s, 1) = "-" THEN StripDashOnly(Tail(s))
    ELSE CharAt(s, 1) \o StripDashOnly(Tail(s))

\* s.replace(/[-:]/g, ""): every '-' and every ':' is removed.
RECURSIVE StripDashColon(_)
StripDashColon(s) ==
    IF s = "" THEN ""
    ELSE IF CharAt(s, 1) \in {"-", ":"} THEN StripDashColon(Tail(s))
    ELSE CharAt(s, 1) \o StripDashColon(Tail(s))

\* s.replace(/\.\d{3}/, ""): the first '.' followed by three digits is
\* removed with those digits; without a match s is returned as it is.
StripMillis(s) ==
    LET hits == {i \in 1..Len(s) : /\ CharAt(s, i) = "."
                                   /\ i + 3 <= Len(s)
                                   /\ IsDigits(SubSeq(s, i + 1, i + 3))}
    IN  IF hits = {} THEN s
        ELSE LET i == CHOOSE j \in hits : \A k \in hits : j <= k
             IN  SubSeq(s, 1, i - 1) \o SubSeq(s, i + 4, Len(s))

\* String(n).padStart(w, "0") for n >= 0.
RECURSIVE PadStart(_, _)
PadStart(s, w) == IF Len(s) >= w THEN s ELSE PadStart("0" \o s, w)

Pad(n, w) == PadStart(ToString(n), w)

\* ------------------------------------------------------------------------
\* Date: a time value is [day, ms], the ECMAScript Day(t) and
\* TimeWithinDay(t) of the milliseconds t since the epoch.
\* ------------------------------------------------------------------------

\* YearFromTime, MonthFromTime and DateFromTime of a day number >= 0
\* (proleptic Gregorian calendar, day 0 = 1970-01-01).
CivilFromDays(day) ==
    LET z    == day + 719468
        era  == z \div 146097
        doe  == z - era * 146097
        yoe  == (doe - doe \div 1460 + doe \div 36524 - doe \div 146096) \div 365
        doy  == doe - (365 * yoe + yoe \div 4 - yoe \div 100)
        mp   == (5 * doy + 2) \div 153
        d    == doy - (153 * mp + 2) \div 5 + 1
        m    == IF mp < 10 THEN mp + 3 ELSE mp - 9
        y    == yoe + era * 400 + (IF m <= 2 THEN 1 ELSE 0)
    IN  [year |-> y, month |-> m, date |-> d]

\* Date.prototype.toISOString: YYYY-MM-DDTHH:mm:ss.sssZ, and the expanded
\* year +YYYYYY once the year has more than four digits.
ToISOString(t) ==
    LET c    == CivilFromDays(t.day)
        yyyy == IF c.year <= 9999 THEN Pad(c.year, 4) ELSE "+" \o Pad(c.year, 6)
        hh   == t.ms \div 3600000
        mi   == (t.ms % 3600000) \div 60000
        ss   == (t.ms % 60000) \div 1000
        sss  == t.ms % 1000
    IN  yyyy \o "-" \o Pad(c.month, 2) \o "-" \o Pad(c.date, 2) \o "T"
             \o Pad(hh, 2) \o ":" \o Pad(mi, 2) \o ":" \o Pad(ss, 2)
             \o "." \o Pad(sss, 3) \o "Z"

\* ------------------------------------------------------------------------
\* encodeURIComponent and the default Array.prototype.sort
\* ------------------------------------------------------------------------

HexDigits == "0123456789ABCDEF"

\* The two upper-case hex digits of a byte.
PercentHex(n) == CharAt(HexDigits, (n \div 16) + 1) \o CharAt(HexDigits, (n % 16) + 1)

\* The characters encodeURIComponent leaves alone.
UriUnreserved ==
    {CharAt("ABCDEFGHIJKLMNOPQRSTUVWXYZ", i) : i \in 1..26}
        \cup {CharAt("abcdefghijklmnopqrstuvwxyz", i) : i \in 1..26}
        \cup Digits \cup {"-", "_", ".", "!", "~", "*", "'", "(", ")"}

RECURSIVE EncodeURIComponent(_)
EncodeURIComponent(s) ==
    IF s = "" THEN ""
    ELSE LET c == CharAt(s, 1)
         IN  (IF c \in UriUnreserved THEN c ELSE "%" \o PercentHex(CharCode(c)))
                 \o EncodeURIComponent(Tail(s))

\* a < b in the order of the default sort: by code units, a proper prefix first.
RECURSIVE StrLess(_, _)
StrLess(a, b) ==
    IF b = "" THEN FALSE
    ELSE IF a = "" THEN TRUE
    ELSE IF CharAt(a, 1) = CharAt(b, 1) THEN StrLess(Tail(a), Tail(b))
    ELSE CharCode(CharAt(a, 1)) < CharCode(CharAt(b, 1))

\* One pass of insertion: k put at its place in the sorted array s.
RECURSIVE InsertSorted(_, _)
InsertSorted(k, s) ==
    IF Len(s) = 0 THEN <<k>>
    ELSE IF StrLess(s[1], k) THEN <<s[1]>> \o InsertSorted(k, Tail(s))
    ELSE <<k>> \o s

\* Array.prototype.sort() without a comparator, on an array of strings.
RECURSIVE SortStrings(_)
SortStrings(s) == IF Len(s) = 0 THEN <<>> ELSE InsertSorted(s[1], SortStrings(Tail(s)))

\* The characters the application/x-www-form-urlencoded serializer leaves alone.
FormUnreserved ==
    {CharAt("ABCDEFGHIJKLMNOPQRSTUVWXYZ", i) : i \in 1..26}
        \cup {CharAt("abcdefghijklmnopqrstuvwxyz", i) : i \in 1..26}
        \cup Digits \cup {"*", "-", ".", "_"}

\* The serializer of URLSearchParams, on one name or value: a space becomes
\* '+', every other character outside FormUnreserved is percent-encoded.
RECURSIVE FormEncode(_)
FormEncode(s) ==
    IF s = "" THEN ""
    ELSE LET c == CharAt(s, 1)
         IN  (IF c \in FormUnreserved THEN c
              ELSE IF c = " " THEN "+"
              ELSE "%" \o PercentHex(CharCode(c)))
                 \o FormEncode(Tail(s))

\* URLSearchParams.prototype.toString() of the appended <<name, value>> pairs.
URLSearchParamsToString(pairs) ==
    Join([i \in 1..Len(pairs) |-> FormEncode(pairs[i][1]) \o "=" \o FormEncode(pairs[i][2])], "&")

\* ------------------------------------------------------------------------
\* Objects used as maps: a sequence of <<key, value>> entries in insertion
\* order, with unique keys.
\* ------------------------------------------------------------------------

\* Object.keys(o)
ObjectKeys(o) == [i \in 1..Len(o) |-> o[i][1]]

\* o[key]: undefined when o has no such property.
Lookup(o, key) ==
    IF \E i \in 1..Len(o) : o[i][1] = key
    THEN JsStr(o[CHOOSE i \in 1..Len(o) : o[i][1] = key][2])
    ELSE Undefined

\* ------------------------------------------------------------------------
\* SHA-256 (FIPS 180-4), the algorithm crypto.subtle.digest is asked for.
\* A 32-bit word is the pair <<high 16 bits, low 16 bits>>.
\* ------------------------------------------------------------------------

\* The bitwise exclusive or and the bitwise and of two 16-bit numbers.
RECURSIVE Xor16(_, _)
Xor16(a, b) ==
    IF a = 0 THEN b ELSE IF b = 0 THEN a
    ELSE ((a + b) % 2) + 2 * Xor16(a \div 2, b \div 2)

RECURSIVE And16(_, _)
And16(a, b) ==
    IF a = 0 \/ b = 0 THEN 0
    ELSE ((a % 2) * (b % 2)) + 2 * And16(a \div 2, b \div 2)

XorW(x, y) == <<Xor16(x[1], y[1]), Xor16(x[2], y[2])>>

AndW(x, y) == <<And16(x[1], y[1]), And16(x[2], y[2])>>

NotW(x) == <<65535 - x[1], 65535 - x[2]>>

\* x >>> n and the rotation of x to the right by n bits, 0 < n < 32.
ShR(x, n) ==
    IF n < 16
    THEN <<x[1] \div 2^n, (x[2] \div 2^n) + (x[1] % 2^n) * 2^(16 - n)>>
    ELSE <<0, x[1] \div 2^(n - 16)>>

RotR(x, n) ==
    IF n < 16
    THEN <<(x[1] \div 2^n) + (x[2] % 2^n) * 2^(16 - n),
           (x[2] \div 2^n) + (x[1] % 2^n) * 2^(16 - n)>>
    ELSE <<(x[2] \div 2^(n - 16)) + (x[1] % 2^(n - 16)) * 2^(32 - n),
           (x[1] \div 2^(n - 16)) + (x[2] % 2^(n - 16)) * 2^(32 - n)>>

\* The sum of the words of ws modulo 2^32.
RECURSIVE SumHalf(_, _)
SumHalf(ws, h) == IF ws = <<>> THEN 0 ELSE Head(ws)[h] + SumHalf(Tail(ws), h)

AddW(ws) ==
    LET lo == SumHalf(ws, 2)
    IN  <<(SumHalf(ws, 1) + (lo \div 65536)) % 65536, lo % 65536>>

\* The functions of FIPS 180-4, section 4.1.2.
Ch(x, y, z) == XorW(AndW(x, y), AndW(NotW(x), z))

Maj(x, y, z) == XorW(XorW(AndW(x, y), AndW(x, z)), AndW(y, z))

BigSigma0(x) == XorW(XorW(RotR(x, 2), RotR(x, 13)), RotR(x, 22))

BigSigma1(x) == XorW(XorW(RotR(x, 6), RotR(x, 11)), RotR(x, 25))

SmallSigma0(x) == XorW(XorW(RotR(x, 7), RotR(x, 18)), ShR(x, 3))

SmallSigma1(x) == XorW(XorW(RotR(x, 17), RotR(x, 19)), ShR(x, 10))

\* The initial hash value (section 5.3.3) and the round constants (4.2.2).
Sha256H0 ==
    << <<27145, 58983>>, <<47975, 44677>>, <<15470, 62322>>, <<42319, 62778>>,
       <<20750, 21119>>, <<39685, 26764>>, <<8067, 55723>>, <<23520, 52505>> >>

Sha256K ==
    << <<17034, 12184>>, <<28983, 17553>>, <<46528, 64463>>, <<59829, 56229>>,
       <<14678, 49755>>, <<23025, 4593>>, <<37439, 33444>>, <<43804, 24277>>,
       <<55303, 43672>>, <<4739, 23297>>, <<9265, 34238>>, <<21772, 32195>>,
       <<29374, 23924>>, <<32990, 45566>>, <<39900, 1703>>, <<49563, 61812>>,
       <<58523, 27073>>, <<61374, 18310>>, <<4033, 40390>>, <<9228, 41420>>,
       <<11753, 11375>>, <<19060, 33962>>, <<23728, 43484>>, <<30457, 35034>>,
       <<38974, 20818>>, <<43057, 50797>>, <<45059, 10184>>, <<48985, 32711>>,
       <<50912, 3059>>, <<54695, 37191>>, <<1738, 25425>>, <<5161, 10599>>,
       <<10167, 2693>>, <<11803, 8504>>, <<19756, 28156>>, <<21304, 3347>>,
       <<25866, 29524>>, <<30314, 2747>>, <<33218, 51502>>, <<37490, 11397>>,
       <<41663, 59553>>, <<43034, 26187>>, <<49739, 35696>>, <<51052, 20899>>,
       <<53650, 59417>>, <<54937, 1572>>, <<62478, 13701>>, <<4202, 41072>>,
       <<6564, 49430>>, <<7735, 27656>>, <<10056, 30540>>, <<13488, 48309>>,
       <<14620, 3251>>, <<20184, 43594>>, <<23452, 51791>>, <<26670, 28659>>,
       <<29839, 33518>>, <<30885, 25455>>, <<33992, 30740>>, <<36039, 520>>,
       <<37054, 65530>>, <<42064, 27883>>, <<48889, 41975>>, <<50801, 30962>> >>

\* The one 64-byte block of a message of at most 55 bytes (section 5.1.1):
\* the message, the byte 0x80, zeros, and the length in bits.
PaddedBlock(octets) ==
    LET n == Len(octets)
    IN  [i \in 1..64 |->
            IF i <= n THEN octets[i]
            ELSE IF i = n + 1 THEN 128
            ELSE IF i = 63 THEN (8 * n) \div 256
            ELSE IF i = 64 THEN (8 * n) % 256
            ELSE 0]

\* The message schedule (section 6.2.2, step 1): w holds W_0 .. W_(Len(w)-1).
RECURSIVE MessageSchedule(_)
MessageSchedule(w) ==
    IF Len(w) = 64 THEN w
    ELSE LET t == Len(w) + 1
         IN  MessageSchedule(Append(w, AddW(<<SmallSigma1(w[t - 2]), w[t - 7],
                                              SmallSigma0(w[t - 15]), w[t - 16]>>)))

\* The working variables <<a, b, c, d, e, f, g, h>> after each round
\* (section 6.2.2, step 3): vs holds them after rounds 0 .. Len(vs)-1.
RECURSIVE Rounds(_, _)
Rounds(vs, w) ==
    IF Len(vs) = 65 THEN vs
    ELSE LET t  == Len(vs)
             v  == vs[t]
             T1 == AddW(<<v[8], BigSigma1(v[5]), Ch(v[5], v[6], v[7]), Sha256K[t], w[t]>>)
             T2 == AddW(<<BigSigma0(v[1]), Maj(v[1], v[2], v[3])>>)
         IN  Rounds(Append(vs, <<AddW(<<T1, T2>>), v[1], v[2], v[3],
                                 AddW(<<v[4], T1>>), v[5], v[6], v[7]>>), w)

\* The SHA-256 digest, as 32 bytes, of a message of at most 55 bytes.
Sha256(octets) ==
    LET b == PaddedBlock(octets)
        w == MessageSchedule([t \in 1..16 |->
                 <<b[4 * t - 3] * 256 + b[4 * t - 2], b[4 * t - 1] * 256 + b[4 * t]>>])
        v == Rounds(<<Sha256H0>>, w)[65]
        h == [j \in 1..8 |-> AddW(<<Sha256H0[j], v[j]>>)]
    IN  [i \in 1..32 |->
            LET half == h[((i - 1) \div 4) + 1][(((i - 1) % 4) \div 2) + 1]
            IN  IF i % 2 = 1 THEN half \div 256 ELSE half % 256]

\* ------------------------------------------------------------------------
\* The primitives of crypto.subtle
\* ------------------------------------------------------------------------

\* new TextEncoder().encode(s): the UTF-8 bytes of s.  The strings of the
\* model are ASCII: one byte per character, of the character's code, so a
\* byte string is written as the string of those characters.
TextEncode(s) == s

\* An ArrayBuffer holding the bytes o, each a number 0..255.
JsOctets(o) == [t |-> "buffer", octets |-> o]

\* The SHA-256 digest of the empty message.
EmptyDigest == Sha256(<< >>)

\* crypto.subtle.digest("SHA-256", bytes).  The digest of the empty message
\* is computed; the digest of any other message m is written sha256<m>, a
\* name that no two messages share (no message holds <, | or >).
Digest(bytes) ==
    IF bytes = "" THEN JsOctets(EmptyDigest) ELSE JsBuf("sha256<" \o bytes \o ">")

\* b.toString(16) for a byte b, with the given digits.
ByteToString16(b, digits) ==
    IF b < 16 THEN CharAt(digits, b + 1)
    ELSE CharAt(digits, (b \div 16) + 1) \o CharAt(digits, (b % 16) + 1)

\* Mutant of bufferToHex: the digits are upper case.
bufferToHexUpperCase(buffer) ==
    IF "octets" \in DOMAIN buffer
    THEN Join([i \in 1..Len(buffer.octets) |->
                  PadStart(ByteToString16(buffer.octets[i], HexDigits), 2)], "")
    ELSE "hex<" \o buffer.bytes \o ">"

\* Array.from(new Uint8Array(buffer)).map((b) => b.toString(16).padStart(2, "0")).join("");
\* the hex rendering of named bytes is written hex<name>.
bufferToHex(buffer) ==
    IF "octets" \in DOMAIN buffer
    THEN Join([i \in 1..Len(buffer.octets) |->
                  PadStart(ByteToString16(buffer.octets[i], "0123456789abcdef"), 2)], "")
    ELSE "hex<" \o buffer.bytes \o ">"

\* hashSHA256(data): the hex SHA-256 of the string data.
hashSHA256(data) == bufferToHex(Digest(TextEncode(data)))

\* hmacSHA256(key, data): key is a string (encoded to bytes) or an
\* ArrayBuffer (used as it is); the result is the raw MAC.
hmacSHA256(key, data) ==
    LET raw == IF key.t = "string" THEN TextEncode(key.v) ELSE key.bytes
    IN  JsBuf("hmac<" \o raw \o "|" \o TextEncode(data) \o ">")

\* ------------------------------------------------------------------------
\* signVolcengineRequest, statement by statement
\* ------------------------------------------------------------------------

\* Mutant of XDateOf: the second replace is missing, the milliseconds stay.
XDateWithMillis(now) == StripDashColon(ToISOString(now))

\* The one element of a singleton.
Only(S) == CHOOSE x \in S : TRUE

\* const xDate = now.toISOString().replace(/[-:]/g, "").replace(/\.\d{3}/, "")
\* (each intermediate string is bound as a value, so it is computed once).
XDateOf(now) ==
    Only({StripMillis(t) : t \in {StripDashColon(iso) : iso \in {ToISOString(now)}}})

\* const dateStamp = xDate.substring(0, 8)
DateStampOf(xDate) == Substring0(xDate, 8)

\* One `key=value` pair of the canonical query string.
QueryPair(queryParams, key) ==
    EncodeURIComponent(key) \o "=" \o EncodeURIComponent(TemplateStr(Lookup(queryParams, key)))

\* Mutant of SortedParams: the keys are not sorted and stay in insertion order.
SortedParamsUnsorted(queryParams) ==
    LET keys == ObjectKeys(queryParams)
    IN  Join([i \in 1..Len(keys) |-> QueryPair(queryParams, keys[i])], "&")

\* const sortedParams = Object.keys(queryParams).sort().map(...).join("&")
\* (the sorted keys are bound as a value, so the sort is computed once).
SortedParams(queryParams) ==
    Only({Join([i \in 1..Len(keys) |-> QueryPair(queryParams, keys[i])], "&") :
             keys \in {SortStrings(ObjectKeys(queryParams))}})

\* Mutant of signedHeaderKeys: the names in alphabetical order.
signedHeaderKeysSorted == <<"content-type", "host", "x-content-sha256", "x-date">>

\* const signedHeaderKeys = ["host", "x-date", "x-content-sha256", "content-type"]
signedHeaderKeys == <<"host", "x-date", "x-content-sha256", "content-type">>

\* Mutant of CanonicalHeaderLine: a content type that is absent is rendered
\* as the empty string.
CanonicalHeaderLineOrEmpty(key, host, xDate, xContentSha256, headers) ==
    IF key = "host" THEN "host:" \o host
    ELSE IF key = "x-date" THEN "x-date:" \o xDate
    ELSE IF key = "x-content-sha256" THEN "x-content-sha256:" \o xContentSha256
    ELSE IF key = "content-type"
         THEN "content-type:" \o
              TemplateStr(JsOr(JsOr(Lookup(headers, "content-type"), Lookup(headers, "Content-Type")),
                               JsStr("")))
    ELSE ""

\* The callback of signedHeaderKeys.map: the canonical line of one header.
CanonicalHeaderLine(key, host, xDate, xContentSha256, headers) ==
    IF key = "host" THEN "host:" \o host
    ELSE IF key = "x-date" THEN "x-date:" \o xDate
    ELSE IF key = "x-content-sha256" THEN "x-content-sha256:" \o xContentSha256
    ELSE IF key = "content-type"
         THEN "content-type:" \o
              TemplateStr(JsOr(Lookup(headers, "content-type"), Lookup(headers, "Content-Type")))
    ELSE ""

\* const canonicalHeaders = signedHeaderKeys.map(...).join("\n") + "\n"
CanonicalHeaders(host, xDate, xContentSha256, headers) ==
    Join([i \in 1..Len(signedHeaderKeys) |->
             CanonicalHeaderLine(signedHeaderKeys[i], host, xDate, xContentSha256, headers)],
         "\n") \o "\n"

\* const signedHeaders = signedHeaderKeys.join(";")
SignedHeadersOf == Join(signedHeaderKeys, ";")

\* Mutant of CanonicalRequest: the method line is the constant POST.
CanonicalRequestPostOnly(method, path, sortedParams, canonicalHeaders, signedHeaders, xContentSha256) ==
    Join(<<"POST", path, sortedParams, canonicalHeaders, signedHeaders, xContentSha256>>, "\n")

\* Mutant of CanonicalRequest: a trailing slash of the path is dropped.
CanonicalRequestTrimmedPath(method, path, sortedParams, canonicalHeaders, signedHeaders, xContentSha256) ==
    LET p == IF Len(path) > 1 /\ CharAt(path, Len(path)) = "/"
             THEN SubSeq(path, 1, Len(path) - 1) ELSE path
    IN  Join(<<method, p, sortedParams, canonicalHeaders, signedHeaders, xContentSha256>>, "\n")

\* const canonicalRequest = [method, path, sortedParams, canonicalHeaders,
\*                           signedHeaders, xContentSha256].join("\n")
CanonicalRequest(method, path, sortedParams, canonicalHeaders, signedHeaders, xContentSha256) ==
    Join(<<method, path, sortedParams, canonicalHeaders, signedHeaders, xContentSha256>>, "\n")

\* Mutant of CredentialScope: the service comes before the region.
CredentialScopeServiceFirst(dateStamp, region, service) ==
    dateStamp \o "/" \o service \o "/" \o region \o "/request"

\* const credentialScope = `${dateStamp}/${region}/${service}/request`
CredentialScope(dateStamp, region, service) ==
    dateStamp \o "/" \o region \o "/" \o service \o "/request"

\* const stringToSign = ["HMAC-SHA256", xDate, credentialScope,
\*                       hashedCanonicalRequest].join("\n")
StringToSign(xDate, credentialScope, hashedCanonicalRequest) ==
    Join(<<"HMAC-SHA256", xDate, credentialScope, hashedCanonicalRequest>>, "\n")

\* Mutant of Authorization: the parts are separated by ',' without a space.
AuthorizationNoSpaces(accessKeyId, credentialScope, signedHeaders, signature) ==
    "HMAC-SHA256 Credential=" \o accessKeyId \o "/" \o credentialScope
        \o ",SignedHeaders=" \o signedHeaders \o ",Signature=" \o signature

\* const authorization = `HMAC-SHA256 Credential=${accessKeyId}/${credentialScope},
\*                        SignedHeaders=${signedHeaders}, Signature=${signature}`
Authorization(accessKeyId, credentialScope, signedHeaders, signature) ==
    "HMAC-SHA256 Credential=" \o accessKeyId \o "/" \o credentialScope
        \o ", SignedHeaders=" \o signedHeaders \o ", Signature=" \o signature

\* ------------------------------------------------------------------------
\* Bounds and inputs
\* ------------------------------------------------------------------------

\* The invocations in flight at once.
Calls == {1, 2}

\* How many times the wall clock is seen to change.
MaxTicks == 4

\* The instants the wall clock shows, one after the other, as
\* [Day(t), TimeWithinDay(t)].  The wall clock is not monotonic: it goes
\* forward, and it can be set back.
\*   2024-02-29T23:59:59.007Z  2024-02-29T23:59:59.999Z  (one UTC second)
\*   2024-03-01T00:00:00.000Z  (the next UTC day)
\*   9999-12-31T23:59:59.999Z  (the last instant of a four-digit year)
\*   1970-01-01T00:00:00.000Z  (set back to the zero time)
\*   2000-12-31T12:00:00.500Z
ClockReadings ==
    << [day |-> 19782,   ms |-> 86399007],
       [day |-> 19782,   ms |-> 86399999],
       [day |-> 19783,   ms |-> 0],
       [day |-> 2932896, ms |-> 86399999],
       [day |-> 0,       ms |-> 0],
       [day |-> 11322,   ms |-> 43200500] >>

\* The request of the specification's end-to-end scenario.
BaseRequest ==
    [ method          |-> "POST",
      host            |-> "example.com",
      path            |-> "/",
      queryParams     |-> << <<"Action", "OCRPdf">>, <<"Version", "2021-08-23">> >>,
      headers         |-> << <<"content-type", "application/x-www-form-urlencoded">> >>,
      body            |-> "image_base64=abc&file_type=image&version=v3",
      accessKeyId     |-> "AKID",
      secretAccessKey |-> "SECRET",
      service         |-> "cv",
      region          |-> "cn-north-1" ]

\* Requests that differ from BaseRequest in one argument.
RequestVariants ==
    { [BaseRequest EXCEPT !.queryParams = << <<"Version", "2021-08-23">>, <<"Action", "OCRPdf">> >>],
      [BaseRequest EXCEPT !.queryParams = << <<"b c", "x/y=1">>, <<"B", "">>, <<"a", "1&2">> >>],
      [BaseRequest EXCEPT !.queryParams = << <<"a", "1&2">>, <<"b c", "x/y=1">>, <<"B", "">> >>],
      [BaseRequest EXCEPT !.headers = << <<"X-Extra", "1">>,
                                          <<"Content-Type", "application/x-www-form-urlencoded">> >>],
      [BaseRequest EXCEPT !.headers = << <<"Content-Type", "text/plain">>,
                                          <<"content-type", "application/json">> >>],
      [BaseRequest EXCEPT !.headers = << <<"content-type", "">>, <<"Content-Type", "text/plain">> >>],
      [BaseRequest EXCEPT !.headers = << >>],
      [BaseRequest EXCEPT !.body = ""],
      [BaseRequest EXCEPT !.method = "GET"],
      [BaseRequest EXCEPT !.path = "/v1/ocr/"],
      [BaseRequest EXCEPT !.host = "api.example.com"],
      [BaseRequest EXCEPT !.accessKeyId = "AKID2"],
      [BaseRequest EXCEPT !.secretAccessKey = "SECRET2"],
      [BaseRequest EXCEPT !.service = "ocr"],
      [BaseRequest EXCEPT !.region = "cn-south-1"],
      [BaseRequest EXCEPT !.method = ""],
      [BaseRequest EXCEPT !.path = ""],
      [BaseRequest EXCEPT !.accessKeyId = ""],
      [BaseRequest EXCEPT !.secretAccessKey = ""] }

\* What an invocation is given: the signer's arguments.
DirectInput(req) == [origin |-> "direct", req |-> req]

\* What a POST /api/ocr is given: the parsed JSON body (or the failure to
\* parse it) and the worker's environment.
OcrInput(json, keyId, secret) ==
    [origin |-> "ocr", json |-> json,
     env |-> [VOL_ACCESS_KEY_ID |-> keyId, VOL_SECRET_ACCESS_KEY |-> secret]]

\* A JSON body { image_base64: v }.
ImageJson(v) == [t |-> "object", image_base64 |-> v]

\* A well-formed request to /api/ocr with both credentials configured.
GoodOcr == OcrInput(ImageJson(JsStr("aGk+/w==")), JsStr("AKID"), JsStr("SECRET"))

\* Requests to /api/ocr: well formed, and with each thing that can be missing.
OcrInputs ==
    { GoodOcr,
      OcrInput(ImageJson(JsStr("a b")), JsStr("AKID"), JsStr("SECRET")),
      OcrInput(ImageJson(JsStr("")), JsStr("AKID"), JsStr("SECRET")),
      OcrInput(ImageJson(Undefined), JsStr("AKID"), JsStr("SECRET")),
      OcrInput([t |-> "invalid"], JsStr("AKID"), JsStr("SECRET")),
      OcrInput(ImageJson(JsStr("aGk+/w==")), Undefined, JsStr("SECRET")),
      OcrInput(ImageJson(JsStr("aGk+/w==")), JsStr("AKID"), JsStr("")) }

\* The fields of a JSON body of the provider that the app reads: code,
\* message and data.
Payload(code, message, data) == [code |-> code, message |-> message, data |-> data]

\* The data of a successful OCRPdf answer: one page of 800 x 600 with a text
\* block that has a box and one that has none.
OcrPdfData ==
    [ detail |->
        JsArr(<< [ page_image_hw |-> [h |-> 600, w |-> 800],
                   textblocks |->
                      << [text |-> "Hello", box |-> [x0 |-> 10, y0 |-> 20, x1 |-> 110, y1 |-> 44]],
                         [text |-> "mark", box |-> Undefined] >> ] >>),
      line_texts |-> Undefined ]

\* What the provider answers to the signed request: the kind of body, the
\* HTTP status, the text of the body and, for a JSON body, what it parses to.
\* A success; a signature that is refused (an error of the gateway, which has
\* no code field); a refusal of the service, with a code; a body that is no
\* JSON; no answer that can be read.
UpstreamOutcomes ==
    { [kind |-> "json", status |-> 200, body |-> "{code:10000}",
       json |-> Payload(JsNum(10000), JsStr("Success"), OcrPdfData)],
      [kind |-> "json", status |-> 401, body |-> "{ResponseMetadata:{Error:SignatureDoesNotMatch}}",
       json |-> Payload(Undefined, Undefined, Undefined)],
      [kind |-> "json", status |-> 403, body |-> "{code:50400,message:Access Denied}",
       json |-> Payload(JsNum(50400), JsStr("Access Denied"), Undefined)],
      [kind |-> "text", status |-> 502, body |-> "Bad Gateway", json |-> Undefined],
      [kind |-> "network error", status |-> 0, body |-> "", json |-> Undefined] }

\* The pairs of invocations checked: the base request with itself and with
\* each variant, and a well-formed /api/ocr request with each /api/ocr request.
Scenarios ==
    { <<DirectInput(BaseRequest), DirectInput(r)>> : r \in {BaseRequest} \cup RequestVariants }
        \cup { <<GoodOcr, o>> : o \in OcrInputs }

\* ------------------------------------------------------------------------
\* State
\* ------------------------------------------------------------------------

VARIABLES
    clock,    \* the wall clock: an index into ClockReadings
    input,    \* input[c]: what invocation c is given
    pc,       \* pc[c]: the await invocation c is suspended at
    args,     \* args[c]: the arguments signVolcengineRequest was called with
    loc,      \* loc[c]: the local constants of signVolcengineRequest
    result,   \* result[c]: what signVolcengineRequest settled with
    sent,     \* sent[c]: the request the /api/ocr handler gave to fetch
    resp,     \* resp[c]: the response of the /api/ocr handler to its client
    log,      \* what console.error has written in the worker
    hook,     \* the React state of useVolOCR: isLoading, isInitializing, error, result
    dpc,      \* dpc[c]: the await the c-th call of detect is suspended at
    ocrInstance,  \* the module variable ocrInstance of useOCR
    ocrPromise,   \* the module variable ocrPromise of useOCR
    created,      \* created[i]: the state of the promise of the i-th call of Ocr.create
    ohook,        \* ohook[k]: the React state of the useOCR of component k, and its detect
    view,         \* the props and the React state of LiveTextViewer
    recog,        \* the selections whose recognizeSelection is in flight
    emitted,      \* the calls of onEditRequest and console.error by the handler that ran last
    app,          \* the React state of App and of its useBanana
    edits         \* edits[i]: the i-th call of handleEditRequest

\* The module variables of useOCR and the components that use the hook.
ocrVars == <<ocrInstance, ocrPromise, created, ohook>>

\* LiveTextViewer.
viewerVars == <<view, recog, emitted>>

\* App and its useBanana.
editVars == <<app, edits>>

\* The React state added to the app around the two recognition hooks.
uiVars == <<ocrVars, viewerVars, editVars>>

vars == <<clock, input, pc, args, loc, result, sent, resp, log, hook, dpc, uiVars>>

\* The state of the worker, and the state of the React app.
workerVars == <<clock, input, pc, args, loc, result, sent, resp, log>>

clientVars == <<hook, dpc, uiVars>>

\* No value yet.
None == [t |-> "none"]

\* The locals of signVolcengineRequest before any of them is assigned.
NoLocals ==
    [ now |-> None, xDate |-> "", dateStamp |-> "", xContentSha256 |-> "",
      sortedParams |-> "", canonicalHeaders |-> "", signedHeaders |-> "",
      canonicalRequest |-> "", credentialScope |-> "", hashedCanonicalRequest |-> "",
      stringToSign |-> "", kDate |-> None, kRegion |-> None, kService |-> None,
      kSigning |-> None, signature |-> "", authorization |-> "" ]

\* useVolOCR before any call of detect; version names the API the hook was
\* written for: "OCRPdf" (src/unnamed/part_001) or "MultiLanguageOCR"
\* (src/src/react-app/hooks/useVolOCR.ts).
HookState(version) ==
    [version |-> version, isLoading |-> FALSE, isInitializing |-> FALSE,
     error |-> Null, result |-> Null]

\* The components that have mounted useOCR: its module variables are shared
\* by all of them.
Components == {1, 2, 3}

\* useOCR of one component before any call of detect.  pc is the await its
\* detect is suspended at, awaits what getOCRInstance() returned to that
\* await, ocr the constant ocr of detect.
OcrHookState ==
    [isLoading |-> FALSE, isInitializing |-> FALSE, error |-> Null, result |-> Null,
     pc |-> "idle", awaits |-> None, ocr |-> None]

\* let ocrInstance = null; let ocrPromise = null; the components in ks have
\* mounted the hook and none has called detect.
OcrIdle(ks) ==
    /\ ocrInstance = Null
    /\ ocrPromise = Null
    /\ created = << >>
    /\ ohook = [k \in ks |-> OcrHookState]

\* LiveTextViewer as mounted: the image has no size yet, nothing is
\* selected, no menu and no dialog; onEditRequest is the optional prop.
ViewerState(onEditRequest) ==
    [ onEditRequest |-> onEditRequest,
      containerSize |-> [width |-> 0, height |-> 0],
      isSelecting |-> FALSE,
      selectionStart |-> [x |-> 0, y |-> 0],
      selectionEnd |-> [x |-> 0, y |-> 0],
      selectionRect |-> Null,
      showMenu |-> FALSE,
      showInput |-> FALSE,
      inputText |-> "",
      isRecognizing |-> FALSE,
      editMode |-> "text" ]

\* The viewer of App, which passes handleEditRequest, with nothing in flight.
ViewerIdle ==
    /\ view = ViewerState(TRUE)
    /\ recog = {}
    /\ emitted = << >>

\* App as mounted, before any edit: the report is shown, there is nothing to
\* compare it with, and useBanana is idle.
AppState ==
    [ imageSrc |-> "/report.png", originalSrc |-> Null, isComparing |-> FALSE,
      isEditing |-> FALSE, editError |-> Null ]

EditIdle ==
    /\ app = AppState
    /\ edits = << >>

\* The React state around useVolOCR when the app does not mount it: no
\* component uses useOCR, and the viewer and the editing are left alone.
UiIdle == OcrIdle({}) /\ ViewerIdle /\ EditIdle

\* The worker when the app posts nothing to it, and useVolOCR not mounted.
WorkerUnused ==
    /\ clock = 1
    /\ input = <<GoodOcr, GoodOcr>>
    /\ pc = [c \in Calls |-> "unsent"]
    /\ args = [c \in Calls |-> None]
    /\ loc = [c \in Calls |-> NoLocals]
    /\ result = [c \in Calls |-> None]
    /\ sent = [c \in Calls |-> None]
    /\ resp = [c \in Calls |-> None]
    /\ log = {}
    /\ hook = Null
    /\ dpc = [c \in Calls |-> "unused"]

\* new Date(): the wall clock now.
Now == ClockReadings[clock]

Init ==
    /\ clock = 1
    /\ input \in Scenarios
    /\ pc = [c \in Calls |-> "idle"]
    /\ args = [c \in Calls |-> None]
    /\ loc = [c \in Calls |-> NoLocals]
    /\ result = [c \in Calls |-> None]
    /\ sent = [c \in Calls |-> None]
    /\ resp = [c \in Calls |-> None]
    /\ log = {}
    /\ hook = HookState("OCRPdf")
    /\ dpc = [c \in Calls |-> "unused"]
    /\ UiIdle

\* The wall clock changes.
Tick ==
    /\ clock <= MaxTicks
    /\ clock < Len(ClockReadings)
    /\ clock' = clock + 1
    /\ UNCHANGED <<input, pc, args, loc, result, sent, resp, log, clientVars>>

\* signVolcengineRequest up to its first await: the clock is read, xDate and
\* dateStamp are computed and the digest of the body is requested.
SignerEntry(c, req) ==
    /\ args' = [args EXCEPT ![c] = req]
    /\ loc' = [loc EXCEPT ![c] =
                 [NoLocals EXCEPT !.now = Now,
                                  !.xDate = XDateOf(Now),
                                  !.dateStamp = DateStampOf(XDateOf(Now))]]
    /\ pc' = [pc EXCEPT ![c] = "hashBody"]

\* A caller invokes signVolcengineRequest with its arguments.
CallSigner(c) ==
    /\ pc[c] = "idle"
    /\ input[c].origin = "direct"
    /\ SignerEntry(c, input[c].req)
    /\ UNCHANGED <<clock, input, result, sent, resp, log, clientVars>>

\* await hashSHA256(body) resolves: the canonical request is built and its
\* digest is requested.
BodyHashed(c) ==
    /\ pc[c] = "hashBody"
    /\ LET a   == args[c]
           l   == loc[c]
           xcs == hashSHA256(a.body)
           sp  == SortedParams(a.queryParams)
           ch  == CanonicalHeaders(a.host, l.xDate, xcs, a.headers)
           sh  == SignedHeadersOf
       IN  loc' = [loc EXCEPT ![c] =
                     [l EXCEPT !.xContentSha256 = xcs,
                               !.sortedParams = sp,
                               !.canonicalHeaders = ch,
                               !.signedHeaders = sh,
                               !.canonicalRequest = CanonicalRequest(a.method, a.path, sp, ch, sh, xcs),
                               !.credentialScope = CredentialScope(l.dateStamp, a.region, a.service)]]
    /\ pc' = [pc EXCEPT ![c] = "hashCanon"]
    /\ UNCHANGED <<clock, input, args, result, sent, resp, log, clientVars>>

\* Mutant of CanonicalHashed: the string to sign is kept in one variable of
\* the module, which every invocation writes and reads.
CanonicalHashedShared(c) ==
    /\ pc[c] = "hashCanon"
    /\ LET h   == hashSHA256(loc[c].canonicalRequest)
           sts == StringToSign(loc[c].xDate, loc[c].credentialScope, h)
       IN  loc' = [d \in Calls |->
                     IF d = c THEN [loc[d] EXCEPT !.hashedCanonicalRequest = h, !.stringToSign = sts]
                     ELSE [loc[d] EXCEPT !.stringToSign = sts]]
    /\ pc' = [pc EXCEPT ![c] = "kDate"]
    /\ UNCHANGED <<clock, input, args, result, sent, resp, log, clientVars>>

\* await hashSHA256(canonicalRequest) resolves: the string to sign is built
\* and the first key of the chain is requested.
CanonicalHashed(c) ==
    /\ pc[c] = "hashCanon"
    /\ LET l == loc[c]
           h == hashSHA256(l.canonicalRequest)
       IN  loc' = [loc EXCEPT ![c] =
                     [l EXCEPT !.hashedCanonicalRequest = h,
                               !.stringToSign = StringToSign(l.xDate, l.credentialScope, h)]]
    /\ pc' = [pc EXCEPT ![c] = "kDate"]
    /\ UNCHANGED <<clock, input, args, result, sent, resp, log, clientVars>>

\* Mutant of KDateDerived: the first key is derived over the year of the date
\* stamp only.
KDateDerivedFromYear(c) ==
    /\ pc[c] = "kDate"
    /\ loc' = [loc EXCEPT ![c].kDate =
                 hmacSHA256(JsStr(args[c].secretAccessKey), Substring0(loc[c].dateStamp, 4))]
    /\ pc' = [pc EXCEPT ![c] = "kRegion"]
    /\ UNCHANGED <<clock, input, args, result, sent, resp, log, clientVars>>

\* Mutant of KDateDerived: the date stamp is taken from a second reading of
\* the clock, made when the key is derived.
KDateDerivedFromNewDate(c) ==
    /\ pc[c] = "kDate"
    /\ loc' = [loc EXCEPT ![c].kDate =
                 hmacSHA256(JsStr(args[c].secretAccessKey), DateStampOf(XDateOf(Now)))]
    /\ pc' = [pc EXCEPT ![c] = "kRegion"]
    /\ UNCHANGED <<clock, input, args, result, sent, resp, log, clientVars>>

\* const kDate = await hmacSHA256(secretAccessKey, dateStamp), the secret
\* holding at least one byte.
KDateDerived(c) ==
    /\ pc[c] = "kDate"
    /\ args[c].secretAccessKey # ""
    /\ loc' = [loc EXCEPT ![c].kDate = hmacSHA256(JsStr(args[c].secretAccessKey), loc[c].dateStamp)]
    /\ pc' = [pc EXCEPT ![c] = "kRegion"]
    /\ UNCHANGED <<clock, input, args, result, sent, resp, log, clientVars>>

\* hmacSHA256(secretAccessKey, dateStamp) with a secret of no bytes:
\* crypto.subtle.importKey rejects a raw HMAC key of length zero with a
\* DataError, nothing catches it, and signVolcengineRequest rejects with it.
EmptyKeyRejected(c) ==
    /\ pc[c] = "kDate"
    /\ args[c].secretAccessKey = ""
    /\ result' = [result EXCEPT ![c] = [t |-> "error", message |-> "DataError"]]
    /\ pc' = [pc EXCEPT ![c] = "rejected"]
    /\ UNCHANGED <<clock, input, args, loc, sent, resp, log, clientVars>>

\* Mutant of KRegionDerived: the key is the hex rendering of kDate.
KRegionDerivedFromHex(c) ==
    /\ pc[c] = "kRegion"
    /\ loc' = [loc EXCEPT ![c].kRegion = hmacSHA256(JsStr(bufferToHex(loc[c].kDate)), args[c].region)]
    /\ pc' = [pc EXCEPT ![c] = "kService"]
    /\ UNCHANGED <<clock, input, args, result, sent, resp, log, clientVars>>

\* const kRegion = await hmacSHA256(kDate, region)
KRegionDerived(c) ==
    /\ pc[c] = "kRegion"
    /\ loc' = [loc EXCEPT ![c].kRegion = hmacSHA256(loc[c].kDate, args[c].region)]
    /\ pc' = [pc EXCEPT ![c] = "kService"]
    /\ UNCHANGED <<clock, input, args, result, sent, resp, log, clientVars>>

\* const kService = await hmacSHA256(kRegion, service)
KServiceDerived(c) ==
    /\ pc[c] = "kService"
    /\ loc' = [loc EXCEPT ![c].kService = hmacSHA256(loc[c].kRegion, args[c].service)]
    /\ pc' = [pc EXCEPT ![c] = "kSigning"]
    /\ UNCHANGED <<clock, input, args, result, sent, resp, log, clientVars>>

\* Mutant of KSigningDerived: the signing key is written to the console.
KSigningDerivedLogged(c) ==
    /\ pc[c] = "kSigning"
    /\ loc' = [loc EXCEPT ![c].kSigning = hmacSHA256(loc[c].kService, "request")]
    /\ pc' = [pc EXCEPT ![c] = "signature"]
    /\ log' = log \cup {<<"kSigning:", bufferToHex(hmacSHA256(loc[c].kService, "request"))>>}
    /\ UNCHANGED <<clock, input, args, result, sent, resp, clientVars>>

\* const kSigning = await hmacSHA256(kService, "request")
KSigningDerived(c) ==
    /\ pc[c] = "kSigning"
    /\ loc' = [loc EXCEPT ![c].kSigning = hmacSHA256(loc[c].kService, "request")]
    /\ pc' = [pc EXCEPT ![c] = "signature"]
    /\ UNCHANGED <<clock, input, args, result, sent, resp, log, clientVars>>

\* const signature = bufferToHex(await hmacSHA256(kSigning, stringToSign));
\* the authorization header is rendered and the three values are returned.
Signed(c) ==
    /\ pc[c] = "signature"
    /\ LET l    == loc[c]
           sig  == bufferToHex(hmacSHA256(l.kSigning, l.stringToSign))
           auth == Authorization(args[c].accessKeyId, l.credentialScope, l.signedHeaders, sig)
       IN  /\ loc' = [loc EXCEPT ![c] = [l EXCEPT !.signature = sig, !.authorization = auth]]
           /\ result' = [result EXCEPT ![c] =
                           [t |-> "ok", authorization |-> auth, xDate |-> l.xDate,
                            xContentSha256 |-> l.xContentSha256]]
    /\ pc' = [pc EXCEPT ![c] = "returned"]
    /\ UNCHANGED <<clock, input, args, sent, resp, log, clientVars>>

\* The awaits of signVolcengineRequest.
SignerAwaits == {"hashBody", "hashCanon", "kDate", "kRegion", "kService", "kSigning", "signature"}

\* Mutant of CryptoRejects: the failure is noted and the step is tried again.
CryptoRejectsRetried(c) ==
    /\ pc[c] \in SignerAwaits
    /\ result' = [result EXCEPT ![c] = [t |-> "error", message |-> "OperationError"]]
    /\ UNCHANGED <<clock, input, pc, args, loc, sent, resp, log, clientVars>>

\* crypto.subtle.digest, importKey or sign rejects: nothing catches it, and
\* signVolcengineRequest rejects with the same error.
CryptoRejects(c) ==
    /\ pc[c] \in SignerAwaits
    /\ result' = [result EXCEPT ![c] = [t |-> "error", message |-> "OperationError"]]
    /\ pc' = [pc EXCEPT ![c] = "rejected"]
    /\ UNCHANGED <<clock, input, args, loc, sent, resp, log, clientVars>>

\* ------------------------------------------------------------------------
\* app.post("/api/ocr")
\* ------------------------------------------------------------------------

\* The provider's endpoint and the action called on it.
OcrHost == "visual.volcengineapi.com"

OcrPath == "/"

OcrQueryParams == << <<"Action", "OCRPdf">>, <<"Version", "2021-08-23">> >>

OcrHeaders == << <<"content-type", "application/x-www-form-urlencoded">> >>

\* const body = bodyParams.toString()
OcrBody(image_base64) ==
    URLSearchParamsToString(<< <<"image_base64", image_base64>>,
                               <<"file_type", "image">>,
                               <<"version", "v3">> >>)

\* The catch block: the error is logged and answered with status 500.
OcrCaught(c, message) ==
    /\ log' = log \cup {<<"OCR API error:", message>>}
    /\ resp' = [resp EXCEPT ![c] =
                  [status |-> 500, error |-> "OCR request failed", details |-> message]]
    /\ pc' = [pc EXCEPT ![c] = "responded"]

\* A POST /api/ocr arrives and runs to its first pending await: the JSON
\* body is read, the field and the credentials are checked, the request is
\* laid out and signVolcengineRequest is called.
OcrRequest(c) ==
    /\ pc[c] = "idle"
    /\ input[c].origin = "ocr"
    /\ LET in == input[c]
           ak == in.env.VOL_ACCESS_KEY_ID
           sk == in.env.VOL_SECRET_ACCESS_KEY
       IN  IF in.json.t = "invalid"
           THEN /\ OcrCaught(c, "Unexpected token in JSON")
                /\ UNCHANGED <<args, loc>>
           ELSE IF ~Truthy(in.json.image_base64)
           THEN /\ resp' = [resp EXCEPT ![c] =
                              [status |-> 400, error |-> "image_base64 is required"]]
                /\ pc' = [pc EXCEPT ![c] = "responded"]
                /\ UNCHANGED <<args, loc, log>>
           ELSE IF ~Truthy(ak) \/ ~Truthy(sk)
           THEN /\ resp' = [resp EXCEPT ![c] =
                              [status |-> 500, error |-> "Missing Volcengine credentials"]]
                /\ pc' = [pc EXCEPT ![c] = "responded"]
                /\ UNCHANGED <<args, loc, log>>
           ELSE /\ SignerEntry(c, [ method          |-> "POST",
                                    host            |-> OcrHost,
                                    path            |-> OcrPath,
                                    queryParams     |-> OcrQueryParams,
                                    headers         |-> OcrHeaders,
                                    body            |-> OcrBody(in.json.image_base64.v),
                                    accessKeyId     |-> ak.v,
                                    secretAccessKey |-> sk.v,
                                    service         |-> "cv",
                                    region          |-> "cn-north-1" ])
                /\ UNCHANGED <<resp, log>>
    /\ UNCHANGED <<clock, input, result, sent, clientVars>>

\* const queryString = Object.entries(queryParams).map(...).join("&")
OcrQueryString(queryParams) ==
    Join([i \in 1..Len(queryParams) |->
             EncodeURIComponent(queryParams[i][1]) \o "=" \o EncodeURIComponent(queryParams[i][2])],
         "&")

\* Mutant of OcrOutbound: X-Date is formatted from a new Date() made when
\* the request is sent.
OcrOutboundNewDate(h, r) ==
    [ method  |-> "POST",
      url     |-> "https://" \o h.host \o h.path \o "?" \o OcrQueryString(h.queryParams),
      headers |-> h.headers \o << <<"Host", h.host>>,
                                  <<"X-Date", XDateOf(Now)>>,
                                  <<"X-Content-Sha256", r.xContentSha256>>,
                                  <<"Authorization", r.authorization>> >>,
      body    |-> h.body ]

\* The request given to fetch: h holds the handler's constants host, path,
\* queryParams, headers and body (the very values it passed to the signer),
\* r is what the signer returned.
OcrOutbound(h, r) ==
    [ method  |-> "POST",
      url     |-> "https://" \o h.host \o h.path \o "?" \o OcrQueryString(h.queryParams),
      headers |-> h.headers \o << <<"Host", h.host>>,
                                  <<"X-Date", r.xDate>>,
                                  <<"X-Content-Sha256", r.xContentSha256>>,
                                  <<"Authorization", r.authorization>> >>,
      body    |-> h.body ]

\* The signer has returned to the handler: the URL is built and the signed
\* request is given to fetch.
OcrFetch(c) ==
    /\ pc[c] = "returned"
    /\ input[c].origin = "ocr"
    /\ sent' = [sent EXCEPT ![c] = OcrOutbound(args[c], result[c])]
    /\ pc' = [pc EXCEPT ![c] = "fetching"]
    /\ UNCHANGED <<clock, input, args, loc, result, resp, log, clientVars>>

\* fetch and response.json() settle: a JSON body is relayed with c.json
\* (status 200) whatever the provider's status; a network error or a body
\* that is no JSON throws into the catch block.
OcrUpstream(c) ==
    /\ pc[c] = "fetching"
    /\ \E up \in UpstreamOutcomes :
          IF up.kind = "json"
          THEN /\ resp' = [resp EXCEPT ![c] = [status |-> 200, json |-> up.body]]
               /\ pc' = [pc EXCEPT ![c] = "responded"]
               /\ UNCHANGED log
          ELSE OcrCaught(c, IF up.kind = "text" THEN "Unexpected token in JSON"
                            ELSE "Network connection lost")
    /\ UNCHANGED <<clock, input, args, loc, result, sent, clientVars>>

\* The signer has rejected: the handler's catch block answers.
OcrSignerFailed(c) ==
    /\ pc[c] = "rejected"
    /\ input[c].origin = "ocr"
    /\ OcrCaught(c, result[c].message)
    /\ UNCHANGED <<clock, input, args, loc, result, sent, clientVars>>

\* ------------------------------------------------------------------------
\* useVolOCR and the button of App that calls detect
\* ------------------------------------------------------------------------

\* The two versions of the hook.
HookVersions == {"OCRPdf", "MultiLanguageOCR"}

\* img.naturalWidth and img.naturalHeight of the image shown.
NaturalSize == [width |-> 1024, height |-> 768]

\* response.ok
ResponseOk(status) == status >= 200 /\ status <= 299

\* await response.json() in the browser, for the bodies the worker relays.
JsonParse(text) == (CHOOSE up \in UpstreamOutcomes : up.kind = "json" /\ up.body = text).json

\* boxToFrame(box)
boxToFrame(box) ==
    [left |-> box.x0, top |-> box.y0, width |-> box.x1 - box.x0, height |-> box.y1 - box.y0]

\* if (block.box)
HasBox(block) == block.box # Undefined

\* The lines pushed for the text blocks of the pages of detail.
RECURSIVE DetailLines(_)
DetailLines(detail) ==
    IF detail = << >> THEN << >>
    ELSE LET blocks == SelectSeq(Head(detail).textblocks, HasBox)
         IN  [i \in 1..Len(blocks) |->
                 [text |-> blocks[i].text, score |-> 1, frame |-> boxToFrame(blocks[i].box)]]
             \o DetailLines(Tail(detail))

\* The OCRPdf hook after its check of the code: the result it sets (a detail
\* given as a string is one that JSON.parse accepts).
OcrPdfResult(apiResult) ==
    LET detail == IF apiResult.data # Undefined /\ apiResult.data.detail # Undefined
                  THEN apiResult.data.detail.v ELSE << >>
        sized  == Len(detail) > 0 /\ detail[1].page_image_hw # Undefined
    IN  [lines       |-> DetailLines(detail),
         imageWidth  |-> IF sized THEN detail[1].page_image_hw.w ELSE NaturalSize.width,
         imageHeight |-> IF sized THEN detail[1].page_image_hw.h ELSE NaturalSize.height]

\* item.polygons && item.polygons.length >= 4
HasPolygons(item) == item.polygons # Undefined /\ Len(item.polygons.v) >= 4

\* polygonsToFrame(polygons): the rectangle around the points.
polygonsToFrame(polygons) ==
    LET xs     == {polygons[i].x : i \in 1..Len(polygons)}
        ys     == {polygons[i].y : i \in 1..Len(polygons)}
        left   == CHOOSE m \in xs : \A x \in xs : m <= x
        top    == CHOOSE m \in ys : \A y \in ys : m <= y
        right  == CHOOSE m \in xs : \A x \in xs : m >= x
        bottom == CHOOSE m \in ys : \A y \in ys : m >= y
    IN  [left |-> left, top |-> top, width |-> right - left, height |-> bottom - top]

\* The MultiLanguageOCR hook after its check of the code: the result it sets.
MultiLanguageResult(apiResult) ==
    LET lineTexts == IF apiResult.data # Undefined /\ apiResult.data.line_texts # Undefined
                     THEN apiResult.data.line_texts.v ELSE << >>
        kept      == SelectSeq(lineTexts, HasPolygons)
    IN  [lines       |-> [i \in 1..Len(kept) |->
                             [text |-> kept[i].text, score |-> kept[i].confidence,
                              frame |-> polygonsToFrame(kept[i].polygons.v)]],
         imageWidth  |-> NaturalSize.width,
         imageHeight |-> NaturalSize.height]

\* The check of the code of the answer: the OCRPdf hook throws unless the
\* code is 10000, the MultiLanguageOCR hook throws when there is a code other
\* than 0.
CodeRefused(version, apiResult) ==
    IF version = "OCRPdf" THEN apiResult.code # JsNum(10000)
    ELSE Truthy(apiResult.code) /\ apiResult.code # JsNum(0)

\* catch (err) { setError(...) } finally { setIsLoading(false); setIsInitializing(false) }
DetectCaught(c, message) ==
    /\ hook' = [hook EXCEPT !.error = JsStr(message), !.isLoading = FALSE, !.isInitializing = FALSE]
    /\ dpc' = [dpc EXCEPT ![c] = "done"]

\* The button of the App that mounts useVolOCR, enabled while isLoading is
\* false, is clicked: detect(imageSrc) runs to its first await, the load of
\* the image.
Detect(c) ==
    /\ hook # Null
    /\ ~hook.isLoading
    /\ dpc[c] = "unused"
    /\ \A b \in Calls : b < c => dpc[b] = "done"
    /\ hook' = [hook EXCEPT !.isLoading = TRUE, !.error = Null]
    /\ dpc' = [dpc EXCEPT ![c] = "loadImage"]
    /\ UNCHANGED <<workerVars, uiVars>>

\* img.onload: the size is kept, isInitializing is set and the image is
\* fetched to be converted to base64.
ImageLoaded(c) ==
    /\ dpc[c] = "loadImage"
    /\ hook' = [hook EXCEPT !.isInitializing = TRUE]
    /\ dpc' = [dpc EXCEPT ![c] = "toBase64"]
    /\ UNCHANGED <<workerVars, uiVars>>

\* img.onerror
ImageFailed(c) ==
    /\ dpc[c] = "loadImage"
    /\ DetectCaught(c, "Failed to load image")
    /\ UNCHANGED <<workerVars, uiVars>>

\* imageUrlToBase64 resolves: isInitializing is cleared and the POST to
\* /api/ocr leaves for the worker.
Base64Ready(c) ==
    /\ dpc[c] = "toBase64"
    /\ pc[c] = "unsent"
    /\ hook' = [hook EXCEPT !.isInitializing = FALSE]
    /\ dpc' = [dpc EXCEPT ![c] = "fetching"]
    /\ pc' = [pc EXCEPT ![c] = "idle"]
    /\ UNCHANGED <<clock, input, args, loc, result, sent, resp, log, uiVars>>

\* imageUrlToBase64 rejects: the fetch of the image fails with a TypeError,
\* or the FileReader with an event, which is no Error.
Base64Failed(c) ==
    /\ dpc[c] = "toBase64"
    /\ \E message \in {"Failed to fetch", "OCR detection failed"} : DetectCaught(c, message)
    /\ UNCHANGED <<workerVars, uiVars>>

\* fetch("/api/ocr") rejects: the worker cannot be reached, or its answer is lost.
FetchFailed(c) ==
    /\ dpc[c] = "fetching"
    /\ DetectCaught(c, "Failed to fetch")
    /\ UNCHANGED <<workerVars, uiVars>>

\* The answer of the worker arrives: the status is checked, the body is
\* parsed, the code is checked, and the result is set.
ResponseArrived(c) ==
    /\ dpc[c] = "fetching"
    /\ pc[c] = "responded"
    /\ IF ~ResponseOk(resp[c].status)
       THEN DetectCaught(c, "API request failed: " \o ToString(resp[c].status))
       ELSE LET apiResult == JsonParse(resp[c].json)
            IN  IF CodeRefused(hook.version, apiResult)
                THEN DetectCaught(c, JsOr(apiResult.message, JsStr("OCR API returned error")).v)
                ELSE /\ hook' = [hook EXCEPT
                                   !.result = IF hook.version = "OCRPdf"
                                              THEN OcrPdfResult(apiResult)
                                              ELSE MultiLanguageResult(apiResult),
                                   !.isLoading = FALSE, !.isInitializing = FALSE]
                     /\ dpc' = [dpc EXCEPT ![c] = "done"]
    /\ UNCHANGED <<workerVars, uiVars>>

Next ==
    \/ Tick
    \/ \E c \in Calls :
          \/ CallSigner(c)
          \/ BodyHashed(c)
          \/ CanonicalHashed(c)
          \/ KDateDerived(c)
          \/ EmptyKeyRejected(c)
          \/ KRegionDerived(c)
          \/ KServiceDerived(c)
          \/ KSigningDerived(c)
          \/ Signed(c)
          \/ CryptoRejects(c)
          \/ OcrRequest(c)
          \/ OcrFetch(c)
          \/ OcrUpstream(c)
          \/ OcrSignerFailed(c)

Spec == Init /\ [][Next]_vars

\* The requests the hook can post: their body is always JSON.
HookOcrInputs == {o \in OcrInputs : o.json.t = "object"}

\* The app in the browser with its worker: no request has been posted, and
\* either version of the hook is mounted.  The first click posts any request
\* of the hook, a second click a well-formed one.
AppInit ==
    /\ clock = 1
    /\ input \in {<<o, GoodOcr>> : o \in HookOcrInputs}
    /\ pc = [c \in Calls |-> "unsent"]
    /\ args = [c \in Calls |-> None]
    /\ loc = [c \in Calls |-> NoLocals]
    /\ result = [c \in Calls |-> None]
    /\ sent = [c \in Calls |-> None]
    /\ resp = [c \in Calls |-> None]
    /\ log = {}
    /\ hook \in {HookState(v) : v \in HookVersions}
    /\ dpc = [c \in Calls |-> "unused"]
    /\ UiIdle

\* The steps the worker takes by itself for request c: the continuations of
\* the handler and of the signer after a promise of theirs has resolved.
HandlerStep(c) ==
    \/ OcrRequest(c)
    \/ BodyHashed(c)
    \/ CanonicalHashed(c)
    \/ KDateDerived(c)
    \/ KRegionDerived(c)
    \/ KServiceDerived(c)
    \/ KSigningDerived(c)
    \/ Signed(c)
    \/ OcrFetch(c)
    \/ OcrSignerFailed(c)

AppNext ==
    \E c \in Calls :
        \/ Detect(c)
        \/ ImageLoaded(c)
        \/ ImageFailed(c)
        \/ Base64Ready(c)
        \/ Base64Failed(c)
        \/ FetchFailed(c)
        \/ ResponseArrived(c)
        \/ HandlerStep(c)
        \/ CryptoRejects(c)
        \/ OcrUpstream(c)

AppSpec == AppInit /\ [][AppNext]_vars

\* The event loop runs the continuation of every promise that has settled:
\* the steps of the handler and the handling of the worker's answer by the
\* hook are taken when they can be.  Nothing makes the provider answer.
AppLive ==
    /\ AppSpec
    /\ \A c \in Calls : WF_vars(HandlerStep(c)) /\ WF_vars(ResponseArrived(c))

\* ------------------------------------------------------------------------
\* POST /api/banana, and the two endpoints of the worker side by side
\* ------------------------------------------------------------------------

\* What a POST /api/banana is given: the parsed JSON body (or the failure to
\* parse it) and the worker's environment.
BananaInput(json, apiKey) ==
    [origin |-> "banana", json |-> json, env |-> [OPENROUTER_API_KEY |-> apiKey]]

\* A JSON body { image_base64, rect, text, imageWidth, imageHeight, mode }.
EditJson(image_base64, rect, text, mode) ==
    [t |-> "object", image_base64 |-> image_base64, rect |-> rect, text |-> text,
     imageWidth |-> JsNum(1024), imageHeight |-> JsNum(768), mode |-> mode]

\* A selection in the coordinates of the image.
EditRect == [t |-> "object", x |-> 13, y |-> 26, width |-> 64, height |-> 32]

\* A well-formed request to /api/banana with the API key configured.
GoodBanana == BananaInput(EditJson(JsStr("aGk="), EditRect, JsStr("Hi"), Undefined), JsStr("sk-or-1"))

\* Requests to /api/banana: well formed in each mode, with each field
\* missing or empty, with a body that is no JSON, without the API key, and
\* with a field and the API key missing.
BananaInputs ==
    { GoodBanana,
      BananaInput(EditJson(JsStr("aGk="), EditRect, JsStr("add a hat"), JsStr("free")), JsStr("sk-or-1")),
      BananaInput(EditJson(Undefined, EditRect, JsStr("Hi"), Undefined), JsStr("sk-or-1")),
      BananaInput(EditJson(JsStr(""), EditRect, JsStr("Hi"), Undefined), JsStr("sk-or-1")),
      BananaInput(EditJson(JsStr("aGk="), Undefined, JsStr("Hi"), Undefined), JsStr("sk-or-1")),
      BananaInput(EditJson(JsStr("aGk="), Null, JsStr("Hi"), JsStr("free")), JsStr("sk-or-1")),
      BananaInput(EditJson(JsStr("aGk="), EditRect, Undefined, Undefined), JsStr("sk-or-1")),
      BananaInput(EditJson(JsStr("aGk="), EditRect, JsStr(""), JsStr("free")), JsStr("sk-or-1")),
      BananaInput([t |-> "invalid"], JsStr("sk-or-1")),
      BananaInput(EditJson(JsStr("aGk="), EditRect, JsStr("Hi"), Undefined), Undefined),
      BananaInput(EditJson(JsStr("aGk="), EditRect, JsStr("Hi"), JsStr("free")), JsStr("")),
      BananaInput(EditJson(JsStr("aGk="), EditRect, Undefined, Undefined), Undefined),
      BananaInput(EditJson(Undefined, Undefined, Undefined, Undefined), JsStr("")) }

\* What OpenRouter answers: a completion; a refusal with a JSON body; a
\* refusal whose body is no JSON; a body that is no JSON under status 200;
\* no answer that can be read.
BananaUpstreamOutcomes ==
    { [kind |-> "json", status |-> 200, body |-> "{choices:[{message:{images:[...]}}]}"],
      [kind |-> "json", status |-> 402, body |-> "{error:{code:402,message:Insufficient credits}}"],
      [kind |-> "text", status |-> 502, body |-> "Bad Gateway"],
      [kind |-> "text", status |-> 200, body |-> "<html>"],
      [kind |-> "network error", status |-> 0, body |-> ""] }

\* mode = "text" in the destructuring of the body: the default is taken
\* when the body has no mode.
ModeOf(json) == IF json.mode = Undefined THEN "text" ELSE json.mode.v

\* The prompt, by what is put into its template: the template of the mode,
\* the size of the image, the selection and the text.
BananaPrompt(json, mode) ==
    [ template    |-> IF mode = "free" THEN "modify this selected region" ELSE "replace the text",
      imageWidth  |-> json.imageWidth.v,
      imageHeight |-> json.imageHeight.v,
      position    |-> <<json.rect.x, json.rect.y>>,
      size        |-> <<json.rect.width, json.rect.height>>,
      text        |-> json.text.v ]

\* The request given to fetch for OpenRouter.
BananaOutbound(json, mode, apiKey) ==
    [ method  |-> "POST",
      url     |-> "https://openrouter.ai/api/v1/chat/completions",
      headers |-> << <<"Content-Type", "application/json">>,
                     <<"Authorization", "Bearer " \o apiKey>>,
                     <<"HTTP-Referer", "https://banana-pen.pages.dev">>,
                     <<"X-Title", "Banana Pen">> >>,
      body    |-> [ model |-> "google/gemini-3-pro-image-preview",
                    image_url |-> "data:image/png;base64," \o json.image_base64.v,
                    text |-> BananaPrompt(json, mode) ] ]

\* The catch block: the error is logged and answered with status 500.
BananaCaught(c, message) ==
    /\ log' = log \cup {<<"Banana API error:", message>>}
    /\ resp' = [resp EXCEPT ![c] =
                  [status |-> 500, error |-> "Image editing request failed", details |-> message]]
    /\ pc' = [pc EXCEPT ![c] = "responded"]

\* Mutant of BananaRequest: the API key is looked at before the fields.
BananaRequestKeyFirst(c) ==
    /\ pc[c] = "idle"
    /\ input[c].origin = "banana"
    /\ LET in == input[c]
           apiKey == in.env.OPENROUTER_API_KEY
       IN  IF in.json.t = "invalid"
           THEN BananaCaught(c, "Unexpected token in JSON") /\ UNCHANGED sent
           ELSE IF ~Truthy(apiKey)
           THEN /\ resp' = [resp EXCEPT ![c] =
                              [status |-> 500, error |-> "Missing OpenRouter API key"]]
                /\ pc' = [pc EXCEPT ![c] = "responded"]
                /\ UNCHANGED <<sent, log>>
           ELSE IF ~Truthy(in.json.image_base64) \/ ~Truthy(in.json.rect) \/ ~Truthy(in.json.text)
           THEN /\ resp' = [resp EXCEPT ![c] =
                              [status |-> 400, error |-> "image_base64, rect, and text are required"]]
                /\ pc' = [pc EXCEPT ![c] = "responded"]
                /\ UNCHANGED <<sent, log>>
           ELSE /\ sent' = [sent EXCEPT ![c] =
                              BananaOutbound(in.json, ModeOf(in.json), apiKey.v)]
                /\ pc' = [pc EXCEPT ![c] = "asking"]
                /\ UNCHANGED <<resp, log>>
    /\ UNCHANGED <<clock, input, args, loc, result, clientVars>>

\* A POST /api/banana arrives and runs to its first pending await: the JSON
\* body is read, the fields and then the API key are checked, the prompt is
\* written and the request is given to fetch.
BananaRequest(c) ==
    /\ pc[c] = "idle"
    /\ input[c].origin = "banana"
    /\ LET in == input[c]
           apiKey == in.env.OPENROUTER_API_KEY
       IN  IF in.json.t = "invalid"
           THEN BananaCaught(c, "Unexpected token in JSON") /\ UNCHANGED sent
           ELSE IF ~Truthy(in.json.image_base64) \/ ~Truthy(in.json.rect) \/ ~Truthy(in.json.text)
           THEN /\ resp' = [resp EXCEPT ![c] =
                              [status |-> 400, error |-> "image_base64, rect, and text are required"]]
                /\ pc' = [pc EXCEPT ![c] = "responded"]
                /\ UNCHANGED <<sent, log>>
           ELSE IF ~Truthy(apiKey)
           THEN /\ resp' = [resp EXCEPT ![c] =
                              [status |-> 500, error |-> "Missing OpenRouter API key"]]
                /\ pc' = [pc EXCEPT ![c] = "responded"]
                /\ UNCHANGED <<sent, log>>
           ELSE /\ sent' = [sent EXCEPT ![c] =
                              BananaOutbound(in.json, ModeOf(in.json), apiKey.v)]
                /\ pc' = [pc EXCEPT ![c] = "asking"]
                /\ UNCHANGED <<resp, log>>
    /\ UNCHANGED <<clock, input, args, loc, result, clientVars>>

\* Mutant of BananaUpstream: a JSON body is relayed whatever the status.
BananaUpstreamRelaying(c) ==
    /\ pc[c] = "asking"
    /\ \E up \in BananaUpstreamOutcomes :
          IF up.kind = "network error" THEN BananaCaught(c, "Network connection lost")
          ELSE IF up.kind = "json"
          THEN /\ resp' = [resp EXCEPT ![c] = [status |-> 200, json |-> up.body]]
               /\ pc' = [pc EXCEPT ![c] = "responded"]
               /\ UNCHANGED log
          ELSE BananaCaught(c, "Unexpected token in JSON")
    /\ UNCHANGED <<clock, input, args, loc, result, sent, clientVars>>

\* fetch and the reading of the body settle: a status that is not ok is
\* logged and answered with 500 and the text of the body; a JSON body under
\* an ok status is relayed with c.json (status 200); a network error or a
\* body that is no JSON throws into the catch block.
BananaUpstream(c) ==
    /\ pc[c] = "asking"
    /\ \E up \in BananaUpstreamOutcomes :
          IF up.kind = "network error" THEN BananaCaught(c, "Network connection lost")
          ELSE IF ~ResponseOk(up.status)
          THEN /\ log' = log \cup {<<"OpenRouter API error:", up.body>>}
               /\ resp' = [resp EXCEPT ![c] =
                             [status |-> 500, error |-> "OpenRouter API request failed",
                              details |-> up.body]]
               /\ pc' = [pc EXCEPT ![c] = "responded"]
          ELSE IF up.kind = "json"
          THEN /\ resp' = [resp EXCEPT ![c] = [status |-> 200, json |-> up.body]]
               /\ pc' = [pc EXCEPT ![c] = "responded"]
               /\ UNCHANGED log
          ELSE BananaCaught(c, "Unexpected token in JSON")
    /\ UNCHANGED <<clock, input, args, loc, result, sent, clientVars>>

\* The worker alone: one request to /api/ocr and one to /api/banana, each
\* of every kind, handled side by side; the app is not mounted.
ProxyInit ==
    /\ clock = 1
    /\ input \in { <<o, b>> : o \in OcrInputs, b \in BananaInputs }
    /\ pc = [c \in Calls |-> "idle"]
    /\ args = [c \in Calls |-> None]
    /\ loc = [c \in Calls |-> NoLocals]
    /\ result = [c \in Calls |-> None]
    /\ sent = [c \in Calls |-> None]
    /\ resp = [c \in Calls |-> None]
    /\ log = {}
    /\ hook = Null
    /\ dpc = [c \in Calls |-> "unused"]
    /\ UiIdle

ProxyNext ==
    \E c \in Calls :
        \/ HandlerStep(c)
        \/ CryptoRejects(c)
        \/ OcrUpstream(c)
        \/ BananaRequest(c)
        \/ BananaUpstream(c)

ProxySpec == ProxyInit /\ [][ProxyNext]_vars

\* ------------------------------------------------------------------------
\* useOCR: the model of PaddleOCR loaded in the browser, and its detect
\* ------------------------------------------------------------------------

\* The instance that the i-th call of Ocr.create resolves with, and the
\* promise that call returned.
OcrOf(i) == [t |-> "ocr", id |-> i]

PromiseOf(i) == [t |-> "promise", id |-> i]

\* Mutant of getOCRInstance: the promise of a creation in progress is not
\* looked at.
getOCRInstanceNoPromise(k, h) ==
    IF ocrInstance # Null
    THEN /\ ohook' = [ohook EXCEPT ![k] = [h EXCEPT !.pc = "awaitInstance", !.awaits = ocrInstance]]
         /\ UNCHANGED <<ocrInstance, ocrPromise, created>>
    ELSE /\ created' = Append(created, "pending")
         /\ ocrPromise' = PromiseOf(Len(created) + 1)
         /\ ohook' = [ohook EXCEPT ![k] =
                        [h EXCEPT !.pc = "awaitCreate", !.awaits = PromiseOf(Len(created) + 1)]]
         /\ UNCHANGED ocrInstance

\* getOCRInstance() called by the detect of component k, whose React state
\* is h, up to its first await: the instance is returned, or the promise of
\* the creation in progress, or Ocr.create is called and its promise kept.
getOCRInstance(k, h) ==
    IF ocrInstance # Null
    THEN /\ ohook' = [ohook EXCEPT ![k] = [h EXCEPT !.pc = "awaitInstance", !.awaits = ocrInstance]]
         /\ UNCHANGED <<ocrInstance, ocrPromise, created>>
    ELSE IF ocrPromise # Null
    THEN /\ ohook' = [ohook EXCEPT ![k] = [h EXCEPT !.pc = "awaitPromise", !.awaits = ocrPromise]]
         /\ UNCHANGED <<ocrInstance, ocrPromise, created>>
    ELSE /\ created' = Append(created, "pending")
         /\ ocrPromise' = PromiseOf(Len(created) + 1)
         /\ ohook' = [ohook EXCEPT ![k] =
                        [h EXCEPT !.pc = "awaitCreate", !.awaits = PromiseOf(Len(created) + 1)]]
         /\ UNCHANGED ocrInstance

\* Mutant of OcrCaughtBy: the finally block leaves isInitializing as it is.
OcrCaughtByKeepsInitializing(k, message) ==
    ohook' = [ohook EXCEPT ![k] = [@ EXCEPT !.error = JsStr(message), !.isLoading = FALSE,
                                            !.pc = "idle"]]

\* catch (err) { setError(...) } finally { setIsLoading(false); setIsInitializing(false) }
OcrCaughtBy(k, message) ==
    ohook' = [ohook EXCEPT ![k] = [@ EXCEPT !.error = JsStr(message), !.isLoading = FALSE,
                                            !.isInitializing = FALSE, !.pc = "idle"]]

\* The button of a component that has mounted useOCR, enabled while
\* isLoading is false, is clicked: detect sets isLoading, clears the error, sets isInitializing and
\* calls getOCRInstance().
OcrDetect(k) ==
    /\ k \in DOMAIN ohook
    /\ ohook[k].pc = "idle"
    /\ ~ohook[k].isLoading
    /\ getOCRInstance(k, [ohook[k] EXCEPT !.isLoading = TRUE, !.error = Null,
                                          !.isInitializing = TRUE, !.ocr = None])
    /\ UNCHANGED <<workerVars, hook, dpc, viewerVars, editVars>>

\* The promise of a call of Ocr.create settles: the model is loaded, or the
\* load fails.
CreateSettled ==
    \E i \in 1..Len(created) :
        /\ created[i] = "pending"
        /\ \E outcome \in {"fulfilled", "rejected"} : created' = [created EXCEPT ![i] = outcome]
        /\ UNCHANGED <<workerVars, hook, dpc, viewerVars, editVars, ocrInstance, ocrPromise, ohook>>

\* await getOCRInstance() resumes in the detect of k, after the assignment
\* ocrInstance = await ocrPromise in the call that created the promise:
\* isInitializing is cleared and the image is loaded; a rejection goes to the
\* catch block.
InstanceReturned(k) ==
    LET h == ohook[k]
    IN  /\ k \in DOMAIN ohook
        /\ h.pc \in {"awaitInstance", "awaitPromise", "awaitCreate"}
        /\ h.pc # "awaitInstance" => created[h.awaits.id] # "pending"
        /\ IF h.pc # "awaitInstance" /\ created[h.awaits.id] = "rejected"
           THEN /\ OcrCaughtBy(k, "Failed to load the model")
                /\ UNCHANGED ocrInstance
           ELSE LET ocr == IF h.pc = "awaitInstance" THEN h.awaits ELSE OcrOf(h.awaits.id)
                IN  /\ ocrInstance' = IF h.pc = "awaitCreate" THEN ocr ELSE ocrInstance
                    /\ ohook' = [ohook EXCEPT ![k] = [h EXCEPT !.isInitializing = FALSE, !.ocr = ocr,
                                                               !.pc = "loadImage"]]
        /\ UNCHANGED <<workerVars, hook, dpc, viewerVars, editVars, ocrPromise, created>>

\* img.onload or img.onerror: ocr.detect(imageSrc) is called, or the catch
\* block runs.
OcrImageSettled(k) ==
    /\ k \in DOMAIN ohook
    /\ ohook[k].pc = "loadImage"
    /\ \/ ohook' = [ohook EXCEPT ![k].pc = "detect"]
       \/ OcrCaughtBy(k, "Failed to load image")
    /\ UNCHANGED <<workerVars, hook, dpc, viewerVars, editVars, ocrInstance, ocrPromise, created>>

\* The minimum and the maximum of a non-empty array of numbers.
MathMin(xs) == CHOOSE x \in {xs[i] : i \in 1..Len(xs)} : \A i \in 1..Len(xs) : x <= xs[i]

MathMax(xs) == CHOOSE x \in {xs[i] : i \in 1..Len(xs)} : \A i \in 1..Len(xs) : x >= xs[i]

\* boxToFrame of useOCR: the rectangle around the four corners of a box.
boxToFrameOfCorners(box) ==
    LET xs == [i \in 1..Len(box) |-> box[i][1]]
        ys == [i \in 1..Len(box) |-> box[i][2]]
    IN  [left |-> MathMin(xs), top |-> MathMin(ys),
         width |-> MathMax(xs) - MathMin(xs), height |-> MathMax(ys) - MathMin(ys)]

\* What ocr.detect can resolve with: no line; a line with its four corners,
\* a line without a box and a line with a box of two corners.
RawLineSets ==
    { << >>,
      << [text |-> "Hello", mean |-> 97,
          box |-> JsArr(<< <<12, 20>>, <<110, 22>>, <<108, 44>>, <<10, 42>> >>)],
         [text |-> "mark", mean |-> 41, box |-> Undefined],
         [text |-> "edge", mean |-> 55, box |-> JsArr(<< <<1, 2>>, <<3, 4>> >>)] >> }

\* rawLines.filter(...).map(...)
RECURSIVE OcrLines(_)
OcrLines(rawLines) ==
    IF rawLines = << >> THEN << >>
    ELSE LET line == Head(rawLines)
         IN  (IF line.box # Undefined /\ Len(line.box.v) = 4
              THEN << [text |-> line.text, score |-> line.mean,
                       frame |-> boxToFrameOfCorners(line.box.v)] >>
              ELSE << >>) \o OcrLines(Tail(rawLines))

\* ocr.detect(imageSrc) settles: the result is set, or the catch block runs;
\* then the finally block.
OcrDetectSettled(k) ==
    /\ k \in DOMAIN ohook
    /\ ohook[k].pc = "detect"
    /\ \/ \E rawLines \in RawLineSets :
             ohook' = [ohook EXCEPT ![k] =
                         [@ EXCEPT !.result = [lines |-> OcrLines(rawLines),
                                               imageWidth |-> NaturalSize.width,
                                               imageHeight |-> NaturalSize.height],
                                   !.isLoading = FALSE, !.isInitializing = FALSE, !.pc = "idle"]]
       \/ \E message \in {"Session run failed", "OCR detection failed"} : OcrCaughtBy(k, message)
    /\ UNCHANGED <<workerVars, hook, dpc, viewerVars, editVars, ocrInstance, ocrPromise, created>>

\* The app whose components recognise text in the browser: no request is
\* posted to the worker.
OcrInit ==
    /\ WorkerUnused
    /\ OcrIdle(Components)
    /\ ViewerIdle
    /\ EditIdle

OcrNext ==
    \/ CreateSettled
    \/ \E k \in Components :
          \/ OcrDetect(k)
          \/ InstanceReturned(k)
          \/ OcrImageSettled(k)
          \/ OcrDetectSettled(k)

OcrSpec == OcrInit /\ [][OcrNext]_vars

\* The app with either hook: the App of src/src/react-app/App.tsx that
\* mounts useVolOCR and posts to the worker, or components that mount useOCR.
HooksInit == AppInit \/ OcrInit

HooksNext == AppNext \/ OcrNext

HooksSpec == HooksInit /\ [][HooksNext]_vars

\* ------------------------------------------------------------------------
\* LiveTextViewer: selecting a region, the menu, the edit dialog
\* ------------------------------------------------------------------------

\* The positions the mouse is followed at, relative to the container.
Points ==
    { [x |-> 10, y |-> 10], [x |-> 15, y |-> 40],
      [x |-> 40, y |-> 15], [x |-> 60, y |-> 60] }

\* img.clientWidth and img.clientHeight: before the image has loaded, and
\* after.
ClientSizes == { [width |-> 0, height |-> 0], [width |-> 800, height |-> 600] }

\* What the user leaves in the textarea.
TypedTexts == { "", "  ", " new text ", "Hi" }

\* Math.abs
MathAbs(n) == IF n < 0 THEN -n ELSE n

\* calculateRect(start, end)
calculateRect(start, end) ==
    [ x |-> IF start.x < end.x THEN start.x ELSE end.x,
      y |-> IF start.y < end.y THEN start.y ELSE end.y,
      width |-> MathAbs(end.x - start.x),
      height |-> MathAbs(end.y - start.y) ]

\* String.prototype.trim, for the white space typed here: spaces.
RECURSIVE TrimStart(_)
TrimStart(s) == IF s # "" /\ CharAt(s, 1) = " " THEN TrimStart(SubSeq(s, 2, Len(s))) ELSE s

RECURSIVE TrimEnd(_)
TrimEnd(s) ==
    IF s # "" /\ CharAt(s, Len(s)) = " " THEN TrimEnd(SubSeq(s, 1, Len(s) - 1)) ELSE s

Trim(s) == TrimEnd(TrimStart(s))

\* {showMenu && selectionRect && <SelectionMenu/>}
MenuShown == view.showMenu /\ view.selectionRect # Null

\* {showInput && selectionRect && <EditInputDialog/>}
DialogShown == view.showInput /\ view.selectionRect # Null

\* The page of OcrPdfData as the JSON text the provider may give for detail.
DetailJson == "[{textblocks:[{text:Hello},{text:mark}]}]"

\* What the fetch of recognizeRegion settles with: the worker relays the
\* JSON of the provider with status 200 (a success with the detail parsed,
\* with the detail as JSON text, as text that is no JSON, without detail,
\* without data; the refusals), answers 400 or 500 itself, or is not reached.
RegionResponses ==
    { [kind |-> "response", status |-> 200, json |-> up.json] :
        up \in { u \in UpstreamOutcomes : u.kind = "json" } }
      \cup
    { [kind |-> "response", status |-> 200,
       json |-> Payload(JsNum(10000), JsStr("Success"), d)] :
        d \in { Undefined,
                [detail |-> Undefined, line_texts |-> Undefined],
                [detail |-> JsStr(DetailJson), line_texts |-> Undefined],
                [detail |-> JsStr("[{"), line_texts |-> Undefined] } }
      \cup
    { [kind |-> "response", status |-> 400, json |-> Undefined],
      [kind |-> "response", status |-> 500, json |-> Undefined],
      [kind |-> "network error", status |-> 0, json |-> Undefined] }

\* What an async function settles with.
Resolved(v) == [settled |-> "resolved", value |-> v]

Thrown(message) == [settled |-> "rejected", value |-> message]

\* The text of the blocks of the pages that have one, in order.
RECURSIVE BlockTexts(_)
BlockTexts(detail) ==
    IF detail = << >> THEN << >>
    ELSE LET withText == SelectSeq(Head(detail).textblocks, LAMBDA block : block.text # "")
         IN  [i \in 1..Len(withText) |-> withText[i].text] \o BlockTexts(Tail(detail))

\* recognizeRegion, from the answer of its fetch on.
recognizeRegion(response) ==
    IF response.kind = "network error" THEN Thrown("Failed to fetch")
    ELSE IF ~ResponseOk(response.status)
    THEN Thrown("OCR API failed: " \o ToString(response.status))
    ELSE LET json == response.json
         IN  IF json.code # JsNum(10000)
             THEN Thrown(JsOr(json.message, JsStr("OCR failed")).v)
             ELSE IF json.data = Undefined \/ json.data.detail = Undefined
             THEN Resolved(Join(<< >>, " "))
             ELSE IF json.data.detail.t = "string"
             THEN IF json.data.detail.v = DetailJson
                  THEN Resolved(Join(BlockTexts(OcrPdfData.detail.v), " "))
                  ELSE Thrown("Unexpected end of JSON input")
             ELSE Resolved(Join(BlockTexts(json.data.detail.v), " "))

\* What recognizeSelection awaits: cropImageToBase64, which throws without
\* a canvas context, and then recognizeRegion.
RecognitionOutcomes ==
    { Thrown("Failed to get canvas context") }
        \cup { recognizeRegion(response) : response \in RegionResponses }

\* updateSize: on mount, when the image has loaded, when the window is resized.
updateSize(size) ==
    /\ view' = [view EXCEPT !.containerSize = size]
    /\ emitted' = << >>
    /\ UNCHANGED <<workerVars, hook, dpc, ocrVars, editVars>>
    /\ UNCHANGED recog

\* handleMouseDown inside the dialog or the menu, when one is shown: nothing.
handleMouseDownInside ==
    /\ MenuShown \/ DialogShown
    /\ emitted' = << >>
    /\ UNCHANGED <<workerVars, hook, dpc, ocrVars, editVars>>
    /\ UNCHANGED <<view, recog>>

\* handleMouseDown elsewhere in the container: what is open is closed and
\* a new selection starts.
handleMouseDown(pos) ==
    /\ LET closed == IF view.showInput \/ view.showMenu
                     THEN [view EXCEPT !.showInput = FALSE, !.showMenu = FALSE,
                                       !.inputText = "", !.selectionRect = Null]
                     ELSE view
       IN  view' = [closed EXCEPT !.isSelecting = TRUE,
                                  !.selectionStart = pos, !.selectionEnd = pos]
    /\ emitted' = << >>
    /\ UNCHANGED <<workerVars, hook, dpc, ocrVars, editVars>>
    /\ UNCHANGED recog

\* handleMouseMove
handleMouseMove(pos) ==
    /\ view' = IF ~view.isSelecting THEN view ELSE [view EXCEPT !.selectionEnd = pos]
    /\ emitted' = << >>
    /\ UNCHANGED <<workerVars, hook, dpc, ocrVars, editVars>>
    /\ UNCHANGED recog

\* handleMouseUp without the check of the size of the rectangle.
handleMouseUpAnySize ==
    /\ view' = IF ~view.isSelecting THEN view
               ELSE [view EXCEPT !.isSelecting = FALSE,
                                 !.selectionRect = calculateRect(view.selectionStart, view.selectionEnd),
                                 !.showMenu = TRUE]
    /\ emitted' = << >>
    /\ UNCHANGED <<workerVars, hook, dpc, ocrVars, editVars>>
    /\ UNCHANGED recog

\* handleMouseUp: a rectangle of at least 10 x 10 is committed and the menu
\* is shown.
handleMouseUp ==
    /\ view' = IF ~view.isSelecting THEN view
               ELSE LET rect == calculateRect(view.selectionStart, view.selectionEnd)
                    IN  IF rect.width < 10 \/ rect.height < 10
                        THEN [view EXCEPT !.isSelecting = FALSE]
                        ELSE [view EXCEPT !.isSelecting = FALSE,
                                          !.selectionRect = rect, !.showMenu = TRUE]
    /\ emitted' = << >>
    /\ UNCHANGED <<workerVars, hook, dpc, ocrVars, editVars>>
    /\ UNCHANGED recog

\* onMouseLeave
handleMouseLeave ==
    /\ view' = IF view.isSelecting THEN [view EXCEPT !.isSelecting = FALSE] ELSE view
    /\ emitted' = << >>
    /\ UNCHANGED <<workerVars, hook, dpc, ocrVars, editVars>>
    /\ UNCHANGED recog

\* recognizeSelection(rect) up to its first await, on the state v.
recognizeSelection(v, rect) ==
    IF v.containerSize.width = 0
    THEN view' = v /\ recog' = recog
    ELSE view' = [v EXCEPT !.isRecognizing = TRUE] /\ recog' = recog \cup {rect}

\* handleSelectTextEdit, by the first button of the menu.
handleSelectTextEdit ==
    /\ MenuShown
    /\ LET v == [view EXCEPT !.editMode = "text", !.showMenu = FALSE, !.showInput = TRUE]
       IN  IF view.selectionRect # Null
           THEN recognizeSelection(v, view.selectionRect)
           ELSE view' = v /\ recog' = recog
    /\ emitted' = << >>
    /\ UNCHANGED <<workerVars, hook, dpc, ocrVars, editVars>>

\* handleSelectFreeEdit, by the second button of the menu.
handleSelectFreeEdit ==
    /\ MenuShown
    /\ view' = [view EXCEPT !.editMode = "free", !.showMenu = FALSE, !.showInput = TRUE]
    /\ emitted' = << >>
    /\ UNCHANGED <<workerVars, hook, dpc, ocrVars, editVars>>
    /\ UNCHANGED recog

\* onInputChange: the textarea is disabled while isRecognizing.
setInputText(text) ==
    /\ DialogShown
    /\ ~view.isRecognizing
    /\ view' = [view EXCEPT !.inputText = text]
    /\ emitted' = << >>
    /\ UNCHANGED <<workerVars, hook, dpc, ocrVars, editVars>>
    /\ UNCHANGED recog

\* The argument of onEditRequest.
EditRequest(rect, text) ==
    [ rect |-> rect, text |-> text,
      containerWidth |-> view.containerSize.width,
      containerHeight |-> view.containerSize.height,
      mode |-> view.editMode ]

\* onEditRequest(params)
OnEditRequest(params) == [call |-> "onEditRequest", arg |-> params]

\* console.error("Region OCR failed:", err)
ConsoleError(message) == [call |-> "console.error", arg |-> [message |-> message]]

\* handleSend that sends the text as typed.
handleSendUntrimmed ==
    /\ DialogShown
    /\ ~view.isRecognizing
    /\ IF view.selectionRect = Null \/ Trim(view.inputText) = ""
       THEN emitted' = << >> /\ view' = view
       ELSE /\ emitted' = IF view.onEditRequest
                          THEN << OnEditRequest(EditRequest(view.selectionRect, view.inputText)) >>
                          ELSE << >>
            /\ view' = [view EXCEPT !.showInput = FALSE, !.inputText = "",
                                    !.selectionRect = Null]
    /\ UNCHANGED <<recog, workerVars, hook, dpc, ocrVars, editVars>>

\* handleSend, by Enter in the textarea or by the send button, which the
\* dialog allows while it is not recognizing.
handleSend ==
    /\ DialogShown
    /\ ~view.isRecognizing
    /\ IF view.selectionRect = Null \/ Trim(view.inputText) = ""
       THEN emitted' = << >> /\ view' = view
       ELSE /\ emitted' = IF view.onEditRequest
                          THEN << OnEditRequest(EditRequest(view.selectionRect, Trim(view.inputText))) >>
                          ELSE << >>
            /\ view' = [view EXCEPT !.showInput = FALSE, !.inputText = "",
                                    !.selectionRect = Null]
    /\ UNCHANGED <<recog, workerVars, hook, dpc, ocrVars, editVars>>

\* handleCancel, by Escape in the textarea or by the close button.
handleCancel ==
    /\ DialogShown
    /\ view' = [view EXCEPT !.showMenu = FALSE, !.showInput = FALSE, !.inputText = "",
                            !.selectionRect = Null, !.isRecognizing = FALSE]
    /\ emitted' = << >>
    /\ UNCHANGED <<workerVars, hook, dpc, ocrVars, editVars>>
    /\ UNCHANGED recog

\* The rest of recognizeSelection that closes the dialog when it catches.
RecognitionSettledClosing(rect, outcome) ==
    /\ rect \in recog
    /\ recog' = recog \ {rect}
    /\ view' = IF outcome.settled = "resolved"
               THEN [view EXCEPT !.inputText = outcome.value, !.isRecognizing = FALSE]
               ELSE [view EXCEPT !.showInput = FALSE, !.isRecognizing = FALSE]
    /\ emitted' = IF outcome.settled = "resolved" THEN << >>
                  ELSE << ConsoleError(outcome.value) >>
    /\ UNCHANGED <<workerVars, hook, dpc, ocrVars, editVars>>

\* The rest of recognizeSelection(rect): the text recognized is set, a
\* failure is caught and logged, and isRecognizing is cleared.
RecognitionSettled(rect, outcome) ==
    /\ rect \in recog
    /\ recog' = recog \ {rect}
    /\ view' = IF outcome.settled = "resolved"
               THEN [view EXCEPT !.inputText = outcome.value, !.isRecognizing = FALSE]
               ELSE [view EXCEPT !.isRecognizing = FALSE]
    /\ emitted' = IF outcome.settled = "resolved" THEN << >>
                  ELSE << ConsoleError(outcome.value) >>
    /\ UNCHANGED <<workerVars, hook, dpc, ocrVars, editVars>>

\* The rectangles handleMouseUp can commit.
Rects == { calculateRect(a, b) : a \in Points, b \in Points }

\* LiveTextViewer alone, with and without onEditRequest: the worker and
\* the hooks are not used.
ViewerInit ==
    /\ WorkerUnused
    /\ OcrIdle({})
    /\ view \in { ViewerState(onEditRequest) : onEditRequest \in BOOLEAN }
    /\ recog = {}
    /\ emitted = << >>
    /\ EditIdle

ViewerNext ==
    \/ \E size \in ClientSizes : updateSize(size)
    \/ handleMouseDownInside
    \/ \E pos \in Points : handleMouseDown(pos) \/ handleMouseMove(pos)
    \/ handleMouseUp
    \/ handleMouseLeave
    \/ handleSelectTextEdit
    \/ handleSelectFreeEdit
    \/ \E text \in TypedTexts : setInputText(text)
    \/ handleSend
    \/ handleCancel
    \/ \E rect \in Rects, outcome \in RecognitionOutcomes : RecognitionSettled(rect, outcome)

ViewerSpec == ViewerInit /\ [][ViewerNext]_vars

\* ------------------------------------------------------------------------
\* App: editing the image with useBanana
\* ------------------------------------------------------------------------

\* How many calls of handleEditRequest are followed.
MaxEdits == 3

\* The image the model returns to the i-th edit, as a data URL.
NewImageUrl(i) == "data:image/png;base64," \o ToString(i)

\* The JSON of OpenRouter that the worker relays, with the images of the
\* message of its first choice.
Completion(images) == [choices |-> << [message |-> [images |-> images]] >>]

\* The bodies of the errors of /api/banana.
ErrorJson(error) == [error |-> error]

\* What the fetch of editImage settles with for the i-th edit: a completion
\* with an image, with an image without url, without image, without choices;
\* the refusals of the worker, one of them without an error field; a body
\* that is no JSON; no answer.
BananaResponses(i) ==
    { [kind |-> "response", status |-> 200, json |-> j] :
        j \in { Completion(<< [image_url |-> [url |-> NewImageUrl(i)]] >>),
                Completion(<< [image_url |-> [url |-> ""]] >>),
                Completion(<< >>),
                [choices |-> << >>] } }
      \cup
    { [kind |-> "response", status |-> 400,
       json |-> ErrorJson(JsStr("image_base64, rect, and text are required"))],
      [kind |-> "response", status |-> 500,
       json |-> ErrorJson(JsStr("OpenRouter API request failed"))],
      [kind |-> "response", status |-> 500, json |-> ErrorJson(Undefined)],
      [kind |-> "text", status |-> 502, json |-> Undefined],
      [kind |-> "network error", status |-> 0, json |-> Undefined] }

\* extractImageFromResponse(result)
extractImageFromResponse(res) ==
    IF res.choices = << >> THEN Null
    ELSE LET images == res.choices[1].message.images
         IN  IF images = << >> \/ images[1].image_url.url = "" THEN Null
             ELSE JsStr(images[1].image_url.url)

\* The message of the result of an edit that was answered without an image.
NoImageMessage == "no image in the answer of the model"

\* What editImage does after its fetch has settled with response: the
\* BananaResult it returns and the error it sets.
editImageResult(response) ==
    LET caught(message) ==
            [success |-> FALSE, newImageUrl |-> Undefined, error |-> message, setError |-> JsStr(message)]
    IN  IF response.kind = "network error" THEN caught("Failed to fetch")
        ELSE IF response.kind = "text" THEN caught("Unexpected token")
        ELSE IF ~ResponseOk(response.status)
        THEN caught(JsOr(response.json.error,
                         JsStr("API request failed: " \o ToString(response.status))).v)
        ELSE LET newImageUrl == extractImageFromResponse(response.json)
             IN  IF newImageUrl # Null
                 THEN [success |-> TRUE, newImageUrl |-> newImageUrl, error |-> "", setError |-> Null]
                 ELSE [success |-> FALSE, newImageUrl |-> Undefined,
                       error |-> NoImageMessage, setError |-> Null]

\* What the i-th editImage returns: the image to edit cannot be loaded, or
\* the fetch settles.
EditOutcomes(i) ==
    { [success |-> FALSE, newImageUrl |-> Undefined, error |-> "Failed to load image",
       setError |-> JsStr("Failed to load image")] }
        \cup { editImageResult(response) : response \in BananaResponses(i) }

\* handleEditRequest(params) up to its await: the image shown is kept as
\* currentSrc and editImage starts with it.
handleEditRequest ==
    /\ Len(edits) < MaxEdits
    /\ edits' = Append(edits, [currentSrc |-> app.imageSrc, state |-> "editing"])
    /\ app' = [app EXCEPT !.isEditing = TRUE, !.editError = Null]
    /\ UNCHANGED <<workerVars, hook, dpc, ocrVars, viewerVars>>

\* The rest of the i-th handleEditRequest, when its editImage returns: the
\* hook is no longer loading and has the error caught; a new image replaces
\* the image shown, with currentSrc as the original, and the comparison is off.
EditSettled(i, editResult) ==
    /\ i \in DOMAIN edits
    /\ edits[i].state = "editing"
    /\ edits' = [edits EXCEPT ![i].state = "settled"]
    /\ LET settled == [app EXCEPT !.isEditing = FALSE,
                                  !.editError = IF editResult.setError # Null
                                                THEN editResult.setError ELSE @]
       IN  app' = IF editResult.success /\ Truthy(editResult.newImageUrl)
                  THEN [settled EXCEPT !.originalSrc = JsStr(edits[i].currentSrc),
                                       !.imageSrc = editResult.newImageUrl.v,
                                       !.isComparing = FALSE]
                  ELSE settled
    /\ UNCHANGED <<workerVars, hook, dpc, ocrVars, viewerVars>>

\* toggleCompare, by the button shown once there is an original.
toggleCompare ==
    /\ app.originalSrc # Null
    /\ app' = [app EXCEPT !.isComparing = ~app.isComparing]
    /\ UNCHANGED <<edits, workerVars, hook, dpc, ocrVars, viewerVars>>

\* App with its viewer sending edit requests: the worker and the
\* recognition are not used.
EditInit ==
    /\ WorkerUnused
    /\ OcrIdle({})
    /\ ViewerIdle
    /\ EditIdle

EditNext ==
    \/ handleEditRequest
    \/ \E i \in 1..MaxEdits : \E editResult \in EditOutcomes(i) : EditSettled(i, editResult)
    \/ toggleCompare

EditSpec == EditInit /\ [][EditNext]_vars

\* ------------------------------------------------------------------------
\* Properties
\* ------------------------------------------------------------------------

\* Two time values of the same UTC second.
SameUtcSecond(a, b) == a.day = b.day /\ a.ms \div 1000 = b.ms \div 1000

\* Invocation c has returned a SignatureResult.
Returned(c) == result[c].t = "ok"

\* Invocation c is past `await hashSHA256(body)`: its canonical request is built.
Built(c) == loc[c].xContentSha256 # ""

\* C1: two invocations with identical arguments whose clock readings fall in
\* the same UTC second return identical authorization, xDate and
\* xContentSha256.
C1_Determinism ==
    \A c, d \in Calls :
        (/\ Returned(c) /\ Returned(d)
         /\ args[c] = args[d]
         /\ SameUtcSecond(loc[c].now, loc[d].now))
        => /\ result[c].authorization = result[d].authorization
           /\ result[c].xDate = result[d].xDate
           /\ result[c].xContentSha256 = result[d].xContentSha256

\* Both invocations have returned, with the same arguments, from two different
\* clock readings of one UTC second.
C1_Witness ==
    /\ Returned(1) /\ Returned(2)
    /\ args[1] = args[2]
    /\ loc[1].now # loc[2].now
    /\ SameUtcSecond(loc[1].now, loc[2].now)

\* C2: the request /api/ocr gives to fetch carries exactly what was signed:
\* the method, path and body given to the signer, a query string equal to the
\* canonical query string, a content-type equal to the signed one, and Host,
\* X-Date, X-Content-Sha256 and Authorization equal to the signer's host and
\* the three values it returned; the signed canonical request is the one
\* rebuilt from the parts of the request sent.
C2_SentAsSigned ==
    \A c \in Calls :
        sent[c] # None =>
            LET q  == sent[c]
                a  == args[c]
                l  == loc[c]
                hv(name) == TemplateStr(Lookup(q.headers, name))
            IN  /\ q.method = a.method
                /\ q.url = "https://" \o a.host \o a.path \o "?" \o l.sortedParams
                /\ q.body = a.body
                /\ ObjectKeys(q.headers) =
                       <<"content-type", "Host", "X-Date", "X-Content-Sha256", "Authorization">>
                /\ hv("Host") = a.host
                /\ hv("X-Date") = result[c].xDate
                /\ hv("X-Content-Sha256") = result[c].xContentSha256
                /\ hv("Authorization") = result[c].authorization
                /\ hv("X-Content-Sha256") = "hex<sha256<" \o q.body \o ">>"
                /\ l.canonicalRequest =
                       q.method \o "\n" \o a.path \o "\n" \o l.sortedParams \o "\n"
                           \o "host:" \o hv("Host") \o "\n"
                           \o "x-date:" \o hv("X-Date") \o "\n"
                           \o "x-content-sha256:" \o hv("X-Content-Sha256") \o "\n"
                           \o "content-type:" \o hv("content-type") \o "\n"
                           \o "\n" \o "host;x-date;x-content-sha256;content-type" \o "\n"
                           \o hv("X-Content-Sha256")
                /\ result[c].authorization =
                       "HMAC-SHA256 Credential=" \o a.accessKeyId \o "/" \o l.credentialScope
                           \o ", SignedHeaders=host;x-date;x-content-sha256;content-type"
                           \o ", Signature=hex<hmac<" \o l.kSigning.bytes \o "|"
                           \o "HMAC-SHA256\n" \o hv("X-Date") \o "\n" \o l.credentialScope \o "\n"
                           \o "hex<sha256<" \o l.canonicalRequest \o ">>" \o ">>"

\* A signed request has been given to fetch after the wall clock moved on
\* from the second the signer read.
C2_Witness ==
    \E c \in Calls :
        /\ sent[c] # None
        /\ ~SameUtcSecond(Now, loc[c].now)
        /\ input[c].json.image_base64.v = "aGk+/w=="

\* C3: the clock is read once per call: however the clock advances during
\* the call, the date stamp in the credential scope and in the data of the
\* first HMAC is the first 8 characters of the xDate the call returns, which
\* is also the xDate of the canonical headers and of the string to sign.
C3_ClockReadOnce ==
    \A c \in Calls :
        LET a   == args[c]
            l   == loc[c]
            xd  == l.xDate
            ds  == SubSeq(xd, 1, 8)
            pre == "host:" \o a.host \o "\nx-date:"
        IN  /\ Built(c) =>
                  /\ l.credentialScope = ds \o "/" \o a.region \o "/" \o a.service \o "/request"
                  /\ SubSeq(l.canonicalHeaders, 1, Len(pre) + Len(xd) + 1) = pre \o xd \o "\n"
            /\ l.stringToSign # "" =>
                  l.stringToSign =
                      "HMAC-SHA256\n" \o xd \o "\n" \o l.credentialScope \o "\n"
                          \o l.hashedCanonicalRequest
            /\ l.kDate # None =>
                  l.kDate = JsBuf("hmac<" \o a.secretAccessKey \o "|" \o ds \o ">")
            /\ Returned(c) => result[c].xDate = xd /\ l.kDate # None

\* An invocation that read the clock at 23:59:59.999 has derived kDate, and
\* is suspended at its next await, with the wall clock on the next UTC day.
C3_Witness ==
    \E c \in Calls :
        /\ pc[c] = "kRegion"
        /\ loc[c].now = [day |-> 19782, ms |-> 86399999]
        /\ Now = [day |-> 19783, ms |-> 0]

\* What xDate is for each of ClockReadings, by the calendar.
ExpectedXDate ==
    << "20240229T235959Z", "20240229T235959Z", "20240301T000000Z",
       "99991231T235959Z", "19700101T000000Z", "20001231T120000Z" >>

\* C4: for every clock reading xDate is YYYYMMDDTHHMMSSZ in UTC (8 digits,
\* 'T', 6 digits, 'Z': no '-', ':' or fraction) and dateStamp is its first
\* 8 characters.
C4_XDateFormat ==
    \A c \in Calls :
        loc[c].now # None =>
            LET xd == loc[c].xDate
            IN  /\ Len(xd) = 16
                /\ IsDigits(SubSeq(xd, 1, 8))
                /\ CharAt(xd, 9) = "T"
                /\ IsDigits(SubSeq(xd, 10, 15))
                /\ CharAt(xd, 16) = "Z"
                /\ \A k \in 1..Len(ClockReadings) :
                       loc[c].now = ClockReadings[k] => xd = ExpectedXDate[k]
                /\ loc[c].dateStamp = SubSeq(xd, 1, 8)

\* An invocation has read a clock whose milliseconds are not zero.
C4_Witness ==
    \E c \in Calls : loc[c].now # None /\ loc[c].now.ms % 1000 # 0

\* C5: the canonical request is the six elements method, path (verbatim),
\* canonical query string, canonical headers block (which ends in a newline,
\* so that an empty line follows it), signed-headers string and content hash
\* of the body, in this order, joined by single newlines.
C5_CanonicalRequest ==
    \A c \in Calls :
        Built(c) =>
            LET a == args[c]
                l == loc[c]
            IN  /\ l.canonicalRequest =
                       a.method \o "\n" \o a.path \o "\n" \o l.sortedParams \o "\n"
                           \o l.canonicalHeaders \o "\n" \o l.signedHeaders \o "\n"
                           \o l.xContentSha256
                /\ CharAt(l.canonicalHeaders, Len(l.canonicalHeaders)) = "\n"
                /\ l.xContentSha256 = hashSHA256(a.body)

\* A canonical request is built for a path that ends in a slash after a
\* segment.
C5_Witness ==
    \E c \in Calls : Built(c) /\ args[c].path = "/v1/ocr/"

\* The canonical query strings of the query maps of BaseRequest and
\* RequestVariants, as encodeURIComponent and a sort by code units give them.
\* The entries of a query map, whatever their insertion order.
Entries(o) == {o[i] : i \in 1..Len(o)}

\* The canonical query strings of the query maps of BaseRequest (also that
\* of /api/ocr) and of RequestVariants, as encodeURIComponent and a sort by
\* code units give them.
ExpectedQuery(queryParams) ==
    IF Entries(queryParams) = {<<"Action", "OCRPdf">>, <<"Version", "2021-08-23">>}
    THEN "Action=OCRPdf&Version=2021-08-23"
    ELSE IF Entries(queryParams) = {<<"b c", "x/y=1">>, <<"B", "">>, <<"a", "1&2">>}
    THEN "B=&a=1%262&b%20c=x%2Fy%3D1"
    ELSE "?"

\* C6: the canonical query string is the percent-encoded key=value pairs of
\* all parameters ('=' also before an empty value), ordered by sorted key and
\* joined by '&'; two maps with the same pairs in different insertion orders
\* give the same canonical query string and the same signature.
C6_CanonicalQuery ==
    /\ \A c \in Calls :
          Built(c) => loc[c].sortedParams = ExpectedQuery(args[c].queryParams)
    /\ \A c, d \in Calls :
          (Built(c) /\ Built(d)
             /\ Entries(args[c].queryParams) = Entries(args[d].queryParams))
              => /\ loc[c].sortedParams = loc[d].sortedParams
                 /\ (/\ Returned(c) /\ Returned(d)
                     /\ loc[c].xDate = loc[d].xDate
                     /\ [args[c] EXCEPT !.queryParams = <<>>] = [args[d] EXCEPT !.queryParams = <<>>])
                    => loc[c].signature = loc[d].signature

\* Both invocations have returned, from the same second, for query maps that
\* hold the same pairs in different insertion orders.
C6_Witness ==
    /\ Returned(1) /\ Returned(2)
    /\ loc[1].xDate = loc[2].xDate
    /\ args[1].queryParams # args[2].queryParams
    /\ Entries(args[1].queryParams) = Entries(args[2].queryParams)

\* How many characters of s are newlines.
Newlines(s) == Cardinality({i \in 1..Len(s) : CharAt(s, i) = "\n"})

\* C7: for every header map the canonical headers block is exactly four
\* lines name:value\n in the order host, x-date, x-content-sha256,
\* content-type, the signed-headers string is
\* host;x-date;x-content-sha256;content-type, and no header of the caller
\* other than content-type influences either.
C7_CanonicalHeaders ==
    /\ \A c \in Calls :
          Built(c) =>
              LET a   == args[c]
                  l   == loc[c]
                  pre == "host:" \o a.host \o "\n" \o "x-date:" \o l.xDate \o "\n"
                             \o "x-content-sha256:" \o l.xContentSha256 \o "\n"
                             \o "content-type:"
              IN  /\ SubSeq(l.canonicalHeaders, 1, Len(pre)) = pre
                  /\ Newlines(l.canonicalHeaders) = 4
                  /\ CharAt(l.canonicalHeaders, Len(l.canonicalHeaders)) = "\n"
                  /\ l.signedHeaders = "host;x-date;x-content-sha256;content-type"
    /\ \A c, d \in Calls :
          (Built(c) /\ Built(d)
             /\ args[c].host = args[d].host
             /\ loc[c].xDate = loc[d].xDate
             /\ loc[c].xContentSha256 = loc[d].xContentSha256
             /\ Lookup(args[c].headers, "content-type") = Lookup(args[d].headers, "content-type")
             /\ Lookup(args[c].headers, "Content-Type") = Lookup(args[d].headers, "Content-Type"))
              => /\ loc[c].canonicalHeaders = loc[d].canonicalHeaders
                 /\ loc[c].signedHeaders = loc[d].signedHeaders

\* A canonical headers block is built from a header map that holds another
\* header before its content type.
C7_Witness ==
    \E c \in Calls :
        /\ Built(c)
        /\ Len(args[c].headers) = 2
        /\ args[c].headers[1][1] = "X-Extra"

\* C8: the signing key comes from exactly four HMAC-SHA256 operations in
\* sequence, each keyed by the raw output of the one before: the secret key
\* over dateStamp, then over region, then over service, then over the
\* literal "request"; that key, and no other, keys the HMAC of the signature.
C8_KeyChain ==
    \A c \in Calls :
        LET a == args[c]
            l == loc[c]
        IN  /\ l.kDate # None =>
                  l.kDate = JsBuf("hmac<" \o a.secretAccessKey \o "|" \o l.dateStamp \o ">")
            /\ l.kRegion # None =>
                  l.kRegion = JsBuf("hmac<" \o l.kDate.bytes \o "|" \o a.region \o ">")
            /\ l.kService # None =>
                  l.kService = JsBuf("hmac<" \o l.kRegion.bytes \o "|" \o a.service \o ">")
            /\ l.kSigning # None =>
                  l.kSigning = JsBuf("hmac<" \o l.kService.bytes \o "|request>")
            /\ Returned(c) =>
                  /\ None \notin {l.kDate, l.kRegion, l.kService, l.kSigning}
                  /\ l.signature = "hex<hmac<" \o l.kSigning.bytes \o "|" \o l.stringToSign \o ">>"

\* An invocation for another service and one for another region have
\* derived their signing keys.
C8_Witness ==
    \E c \in Calls :
        /\ loc[c].kSigning # None
        /\ args[c].service = "ocr" \/ args[c].region = "cn-south-1"

\* C9: the string to sign is the four lines HMAC-SHA256, xDate, the
\* credential scope dateStamp/region/service/request and the hex SHA-256 of
\* the canonical request; the signature is the hex HMAC-SHA256 of the string
\* to sign under the signing key.
C9_StringToSign ==
    \A c \in Calls :
        LET a == args[c]
            l == loc[c]
        IN  /\ l.stringToSign # "" =>
                  l.stringToSign =
                      "HMAC-SHA256" \o "\n" \o l.xDate \o "\n"
                          \o l.dateStamp \o "/" \o a.region \o "/" \o a.service \o "/request" \o "\n"
                          \o "hex<sha256<" \o l.canonicalRequest \o ">>"
            /\ Returned(c) =>
                  /\ l.stringToSign # ""
                  /\ l.kSigning # None
                  /\ l.signature = "hex<" \o "hmac<" \o l.kSigning.bytes \o "|" \o l.stringToSign \o ">" \o ">"

\* An invocation that read the clock on the zero time has its string to sign.
C9_Witness ==
    \E c \in Calls : loc[c].stringToSign # "" /\ loc[c].now = [day |-> 0, ms |-> 0]

\* C10: the authorization returned is 'HMAC-SHA256 Credential=' accessKeyId
\* '/' credentialScope ', SignedHeaders=' signedHeaders ', Signature='
\* signature, with the credential scope of the string to sign and the signed
\* headers of the canonical request of the same call.
C10_Authorization ==
    \A c \in Calls :
        Returned(c) =>
            LET a == args[c]
                l == loc[c]
            IN  /\ result[c].authorization =
                       "HMAC-SHA256 Credential=" \o a.accessKeyId \o "/" \o l.credentialScope
                           \o ", SignedHeaders=" \o l.signedHeaders
                           \o ", Signature=" \o l.signature
                /\ l.stringToSign =
                       "HMAC-SHA256\n" \o l.xDate \o "\n" \o l.credentialScope \o "\n"
                           \o l.hashedCanonicalRequest
                /\ l.canonicalRequest =
                       a.method \o "\n" \o a.path \o "\n" \o l.sortedParams \o "\n"
                           \o l.canonicalHeaders \o "\n" \o l.signedHeaders \o "\n"
                           \o l.xContentSha256

\* An invocation with another access key id has returned.
C10_Witness ==
    \E c \in Calls : Returned(c) /\ args[c].accessKeyId = "AKID2"

\* C11: with the timestamp and all other arguments equal, two invocations
\* whose bodies differ return different X-Content-Sha256 values and different
\* signatures, and two invocations whose methods, whose paths or whose query
\* parameters (a key or a value) differ have different canonical requests and
\* different signatures.
C11_TamperSensitivity ==
    \A c, d \in Calls :
        (Returned(c) /\ Returned(d) /\ loc[c].xDate = loc[d].xDate) =>
            /\ (/\ args[c].body # args[d].body
                /\ [args[c] EXCEPT !.body = ""] = [args[d] EXCEPT !.body = ""])
               => /\ result[c].xContentSha256 # result[d].xContentSha256
                  /\ loc[c].signature # loc[d].signature
            /\ (/\ args[c].method # args[d].method
                /\ [args[c] EXCEPT !.method = ""] = [args[d] EXCEPT !.method = ""])
               => /\ loc[c].canonicalRequest # loc[d].canonicalRequest
                  /\ loc[c].signature # loc[d].signature
            /\ (/\ args[c].path # args[d].path
                /\ [args[c] EXCEPT !.path = ""] = [args[d] EXCEPT !.path = ""])
               => /\ loc[c].canonicalRequest # loc[d].canonicalRequest
                  /\ loc[c].signature # loc[d].signature
            /\ (/\ Entries(args[c].queryParams) # Entries(args[d].queryParams)
                /\ [args[c] EXCEPT !.queryParams = <<>>] = [args[d] EXCEPT !.queryParams = <<>>])
               => /\ loc[c].canonicalRequest # loc[d].canonicalRequest
                  /\ loc[c].signature # loc[d].signature

\* Two invocations that read the same clock reading have returned, one for
\* the method GET and one for POST, all other arguments equal.
C11_Witness ==
    /\ Returned(1) /\ Returned(2)
    /\ loc[1].now = loc[2].now
    /\ args[1].method # args[2].method
    /\ [args[1] EXCEPT !.method = ""] = [args[2] EXCEPT !.method = ""]

\* The credential scope of invocation c: its date stamp, region and service.
ScopeOf(c) == <<loc[c].dateStamp, args[c].region, args[c].service>>

\* C12: the signing keys two invocations derive from the same secret for
\* scopes that differ in date stamp, region or service are different, and the
\* signature an invocation returns is not the HMAC of its string to sign under
\* the signing key of the other scope.
C12_KeyScoping ==
    \A c, d \in Calls :
        (/\ loc[c].kSigning # None /\ loc[d].kSigning # None
         /\ args[c].secretAccessKey = args[d].secretAccessKey
         /\ ScopeOf(c) # ScopeOf(d))
        => /\ loc[c].kSigning # loc[d].kSigning
           /\ Returned(d) =>
                 loc[d].signature # bufferToHex(hmacSHA256(loc[c].kSigning, loc[d].stringToSign))

\* Two invocations with the same secret, region and service have returned,
\* one from the last second of a day and one from the first of the next.
C12_Witness ==
    /\ Returned(1) /\ Returned(2)
    /\ args[1] = args[2]
    /\ loc[1].dateStamp = "20240229"
    /\ loc[2].dateStamp = "20240301"

\* C13: xContentSha256 is the hex SHA-256 of exactly the body given; it is
\* the value of the x-content-sha256 line of the canonical headers, the last
\* line of the canonical request and the xContentSha256 returned; for the
\* empty body it is e3b0c442...7852b855.
C13_ContentSha256 ==
    \A c \in Calls :
        Built(c) =>
            LET a   == args[c]
                l   == loc[c]
                pre == "host:" \o a.host \o "\n" \o "x-date:" \o l.xDate \o "\n"
                line == "x-content-sha256:" \o l.xContentSha256 \o "\n"
                last == "\n" \o l.xContentSha256
                n   == Len(l.canonicalRequest)
            IN  /\ a.body # "" => l.xContentSha256 = "hex<sha256<" \o a.body \o ">>"
                /\ a.body = "" =>
                      l.xContentSha256 =
                          "e3b0c44298fc1c149afbf4c8996fb92427ae41e4649b934ca495991b7852b855"
                /\ Newlines(l.xContentSha256) = 0
                /\ SubSeq(l.canonicalHeaders, Len(pre) + 1, Len(pre) + Len(line)) = line
                /\ SubSeq(l.canonicalRequest, n - Len(last) + 1, n) = last
                /\ Returned(c) => result[c].xContentSha256 = l.xContentSha256

\* An invocation with the empty body has returned.
C13_Witness ==
    \E c \in Calls : Returned(c) /\ args[c].body = ""

\* Invocation c was given an empty method, path, access key id or secret key.
MissingInput(c) ==
    /\ args[c] # None
    /\ "" \in {args[c].method, args[c].path, args[c].accessKeyId, args[c].secretAccessKey}

\* C14: an invocation given no access key id, no secret key, an empty method
\* or an empty path fails: it returns no SignatureResult and no request is
\* sent for it; and a POST /api/ocr that finds a credential missing never
\* calls the signer, sends nothing and answers with an error.
C14_InputValidation ==
    \A c \in Calls :
        /\ MissingInput(c) => (~Returned(c) /\ sent[c] = None)
        /\ (/\ input[c].origin = "ocr"
            /\ ~Truthy(input[c].env.VOL_ACCESS_KEY_ID) \/ ~Truthy(input[c].env.VOL_SECRET_ACCESS_KEY))
           => /\ args[c] = None
              /\ sent[c] = None
              /\ resp[c] # None => resp[c].status >= 400

\* The value signed for the content type of a header map: the property
\* content-type when it is a non-empty string, otherwise the property
\* Content-Type, and the text undefined when that one is absent.
SignedContentType(headers) ==
    LET lower == Lookup(headers, "content-type")
        upper == Lookup(headers, "Content-Type")
    IN  IF lower # Undefined /\ lower.v # "" THEN lower.v
        ELSE IF upper # Undefined THEN upper.v
        ELSE "undefined"

\* C15: whatever the header map holds, the canonical headers block is the
\* four lines host, x-date, x-content-sha256 and content-type; the
\* content-type line carries headers['content-type'] when that is non-empty,
\* otherwise headers['Content-Type'], and 'undefined' when both are absent;
\* an invocation with neither header that returns has signed that line.
C15_ContentTypeLine ==
    \A c \in Calls :
        Built(c) =>
            LET a == args[c]
                l == loc[c]
            IN  /\ l.canonicalHeaders =
                       "host:" \o a.host \o "\n" \o "x-date:" \o l.xDate \o "\n"
                           \o "x-content-sha256:" \o l.xContentSha256 \o "\n"
                           \o "content-type:" \o SignedContentType(a.headers) \o "\n"
                /\ (Returned(c) /\ a.headers = << >>) =>
                       /\ SubSeq(l.canonicalHeaders, Len(l.canonicalHeaders) - 23,
                                 Len(l.canonicalHeaders)) = "\ncontent-type:undefined\n"
                       /\ l.signature = bufferToHex(hmacSHA256(l.kSigning,
                              StringToSign(l.xDate, l.credentialScope,
                                  hashSHA256(CanonicalRequest(a.method, a.path, l.sortedParams,
                                      l.canonicalHeaders, l.signedHeaders, l.xContentSha256)))))

\* An invocation with an empty header map has returned a SignatureResult.
C15_Witness ==
    \E c \in Calls : Returned(c) /\ args[c].headers = << >>

\* The signer of invocation c has rejected.
Rejected(c) == result[c].t = "error"

\* C16: when a digest, importKey or sign step of an invocation fails, the
\* signer rejects with the error of that step (the DataError of importKey
\* only for a key of no bytes, at the first HMAC), and that is final: the
\* rejection is never replaced by a SignatureResult, no further step of the
\* signer runs for the invocation, no request is sent for it, and what the
\* /api/ocr handler catches is that error.
C16_CryptoFailurePropagates ==
    /\ [](\A c \in Calls :
             Rejected(c) =>
                 /\ pc[c] \in {"rejected", "responded"}
                 /\ result[c].message \in {"OperationError", "DataError"}
                 /\ result[c].message = "DataError" =>
                        (args[c].secretAccessKey = "" /\ loc[c].kDate = None
                            /\ loc[c].stringToSign # "")
                 /\ loc[c].signature = "" /\ loc[c].authorization = ""
                 /\ sent[c] = None
                 /\ resp[c] # None =>
                        resp[c] = [status |-> 500, error |-> "OCR request failed",
                                   details |-> result[c].message])
    /\ [][\A c \in Calls :
             Rejected(c) => (result'[c] = result[c] /\ loc'[c] = loc[c] /\ sent'[c] = None)]_vars

\* A POST /api/ocr whose signer rejected after deriving two keys of the
\* chain has been answered.
C16_Witness ==
    \E c \in Calls :
        /\ Rejected(c)
        /\ input[c].origin = "ocr"
        /\ loc[c].kRegion # None /\ loc[c].kService = None
        /\ pc[c] = "responded"

\* What signVolcengineRequest returns for the arguments req when it reads
\* the clock at now and all its steps run with no other invocation in
\* flight.
SignAlone(req, now) ==
    LET xDate   == XDateOf(now)
        xcs     == hashSHA256(req.body)
        sp      == SortedParams(req.queryParams)
        ch      == CanonicalHeaders(req.host, xDate, xcs, req.headers)
        scope   == CredentialScope(DateStampOf(xDate), req.region, req.service)
        cr      == CanonicalRequest(req.method, req.path, sp, ch, SignedHeadersOf, xcs)
        sts     == StringToSign(xDate, scope, hashSHA256(cr))
        kDate   == hmacSHA256(JsStr(req.secretAccessKey), DateStampOf(xDate))
        kRegion == hmacSHA256(kDate, req.region)
        kService == hmacSHA256(kRegion, req.service)
        kSigning == hmacSHA256(kService, "request")
        sig     == bufferToHex(hmacSHA256(kSigning, sts))
    IN  [t |-> "ok",
         authorization |-> Authorization(req.accessKeyId, scope, SignedHeadersOf, sig),
         xDate |-> xDate,
         xContentSha256 |-> xcs]

\* C17: however the steps of the invocations interleave with each other and
\* with changes of the clock, what an invocation returns is what it returns
\* alone for the same arguments and the same clock reading; and no step of
\* one invocation changes the arguments, locals or result of another.
C17_Independence ==
    /\ [](\A c \in Calls : Returned(c) => result[c] = SignAlone(args[c], loc[c].now))
    /\ [][\A c \in Calls :
             (pc'[c] = pc[c]) =>
                 (args'[c] = args[c] /\ loc'[c] = loc[c] /\ result'[c] = result[c])]_vars

\* Two invocations with different arguments and different clock readings are
\* in flight together: one has its string to sign and awaits its signature,
\* the other has just built its own string to sign.
C17_Witness ==
    /\ pc[1] = "signature" /\ pc[2] = "kDate"
    /\ args[1] # args[2]
    /\ loc[1].now # loc[2].now
    /\ loc[1].stringToSign # loc[2].stringToSign

\* The names of the keys of the HMAC chain among the signer's locals.
KeyNames == {"kDate", "kRegion", "kService", "kSigning"}

\* The keys invocation c has derived so far, as the strings they would be
\* written as: their bytes and their hex rendering.
KeyStrings(c) ==
    UNION {{loc[c][k].bytes, bufferToHex(loc[c][k])} : k \in {n \in KeyNames : loc[c][n] # None}}

\* The strings invocation d has let out of the signer and of the handler:
\* what the signer returned, the request given to fetch, and the response to
\* the client.
LetOut(d) ==
    (IF Returned(d)
     THEN {result[d].authorization, result[d].xDate, result[d].xContentSha256, loc[d].signature}
     ELSE {})
    \cup (IF sent[d] # None
          THEN {sent[d].url, sent[d].body} \cup {sent[d].headers[i][2] : i \in 1..Len(sent[d].headers)}
          ELSE {})
    \cup (IF resp[d] # None
          THEN {resp[d][f] : f \in DOMAIN resp[d] \ {"status"}}
          ELSE {})

\* C18: no key of the HMAC chain is written to the console, returned by the
\* signer, sent to the provider or put in the response to the client; an
\* invocation enters the signer with no key, and each of its keys is set
\* once, by its own step, from its own arguments and its own previous key.
C18_KeysStayLocal ==
    /\ [](\A c \in Calls :
             /\ \A e \in log : e[1] \notin KeyStrings(c) /\ e[2] \notin KeyStrings(c)
             /\ \A d \in Calls : LetOut(d) \cap KeyStrings(c) = {})
    /\ [][\A c \in Calls :
             /\ (pc[c] = "idle" /\ pc'[c] # "idle") =>
                    \A k \in KeyNames : loc'[c][k] = None
             /\ \A k \in KeyNames :
                    loc'[c][k] # loc[c][k] =>
                        /\ pc[c] = k
                        /\ loc[c][k] = None
                        /\ loc'[c][k] =
                              (IF k = "kDate"
                               THEN hmacSHA256(JsStr(args[c].secretAccessKey), loc[c].dateStamp)
                               ELSE IF k = "kRegion" THEN hmacSHA256(loc[c].kDate, args[c].region)
                               ELSE IF k = "kService" THEN hmacSHA256(loc[c].kRegion, args[c].service)
                               ELSE hmacSHA256(loc[c].kService, "request"))]_vars

\* A POST /api/ocr whose signer derived its signing key and then failed has
\* been answered from the catch block, which wrote to the console, while the
\* other request was sent to the provider.
C18_Witness ==
    \E c, d \in Calls :
        /\ loc[c].kSigning # None /\ Rejected(c) /\ pc[c] = "responded"
        /\ log # {}
        /\ sent[d] # None

\* The provider refused the signed request of c: it answered with a status
\* that is not 2xx, or with a JSON body whose code is not the 10000 of a
\* success; the worker has answered its client.
ProviderRefused(c) ==
    /\ sent[c] # None
    /\ resp[c] # None
    /\ \/ /\ resp[c].status = 200
          /\ LET up == CHOOSE u \in UpstreamOutcomes : u.kind = "json" /\ u.body = resp[c].json
             IN  ~ResponseOk(up.status) \/ up.json.code # JsNum(10000)
       \/ /\ resp[c].status = 500
          /\ resp[c].details = "Unexpected token in JSON"

\* C19: when the provider has refused the signed request, the call of detect
\* that posted it ends with error set to a message and isLoading false, and
\* sets no result from the refused answer.
C19_RefusalBecomesError ==
    [][\A c \in Calls :
          (dpc[c] = "fetching" /\ dpc'[c] = "done" /\ ProviderRefused(c))
              => /\ hook'.error # Null
                 /\ ~hook'.isLoading
                 /\ hook'.result = hook.result]_vars

\* C20: a POST /api/ocr that is waiting for the provider is eventually
\* answered: the fetch of the provider is bounded by a timeout or a
\* cancellation, so the request does not stay pending when the provider
\* never answers.
C20_UpstreamTimeout ==
    \A c \in Calls : (pc[c] = "fetching") ~> (pc[c] = "responded")

\* C21: over every interleaving of the calls of getOCRInstance made by the
\* components, Ocr.create is called at most once, and every call that
\* resolves gives its caller the instance of that one creation.
C21_LoadedOnce ==
    /\ Len(created) <= 1
    /\ \A k \in Components : ohook[k].ocr # None => ohook[k].ocr = OcrOf(1)
    /\ ocrInstance # Null => ocrInstance = OcrOf(1)

\* Two components that called getOCRInstance while the creation was in
\* progress (one created the promise, the other was given it) hold the
\* instance, and a third is being given the instance that is kept.
C21_Witness ==
    \E i, j, k \in Components :
        /\ i # j
        /\ ohook[i].ocr = OcrOf(1) /\ ohook[i].awaits = PromiseOf(1)
        /\ ohook[j].ocr = OcrOf(1) /\ ohook[j].awaits = PromiseOf(1)
        /\ ohook[k].pc = "awaitInstance"

\* C30: a failed load of the model is recoverable: the detect that was given
\* the rejection of Ocr.create ends with its error set, and a detect that
\* starts when every creation so far has failed calls Ocr.create again.
C30_InitRecoverable ==
    [][\A k \in Components :
          /\ (ohook[k].pc \in {"awaitCreate", "awaitPromise"} /\ ohook'[k].pc = "idle")
                 => ohook'[k].error # Null /\ ~ohook'[k].isLoading
          /\ (/\ ohook[k].pc = "idle" /\ ohook'[k].pc # "idle"
              /\ created # << >>
              /\ \A i \in 1..Len(created) : created[i] = "rejected")
                 => Len(created') = Len(created) + 1]_vars

\* C22: in each of the hooks, isInitializing is true only while isLoading is
\* true, and when no call of detect is running isLoading and isInitializing
\* are both false, whether the last call succeeded or failed.
C22_LoadingReset ==
    /\ hook # Null =>
          /\ hook.isInitializing => hook.isLoading
          /\ (\A c \in Calls : dpc[c] \in {"unused", "done"})
                => ~hook.isLoading /\ ~hook.isInitializing
    /\ \A k \in DOMAIN ohook :
          /\ ohook[k].isInitializing => ohook[k].isLoading
          /\ ohook[k].pc = "idle" => ~ohook[k].isLoading /\ ~ohook[k].isInitializing

\* One component's detect has ended in the catch block and another's with a
\* result, and the detect of a third is running with isInitializing set.
C22_Witness ==
    \E i, j, k \in DOMAIN ohook :
        /\ ohook[i].pc = "idle" /\ ohook[i].error # Null
        /\ ohook[j].pc = "idle" /\ ohook[j].result # Null /\ ohook[j].error = Null
        /\ ohook[k].isInitializing

\* C23: when the recognition of a selection fails (the crop, the request,
\* a refusal of the service, a detail that cannot be parsed), the failure is
\* only logged: the dialog stays as it is, inputText is what it was and
\* isRecognizing is false, so that the textarea of an open dialog takes what
\* the user types and the text typed can be sent.
C23_FailureSwallowed ==
    /\ [][(emitted' # << >> /\ emitted'[1].call = "console.error")
             => /\ view' = [view EXCEPT !.isRecognizing = FALSE]
                /\ Len(emitted') = 1
                /\ (DialogShown => DialogShown')]_vars
    /\ [](DialogShown /\ ~view.isRecognizing
             => /\ ENABLED setInputText("Hi")
                /\ (view.onEditRequest /\ Trim(view.inputText) # ""
                      => ENABLED (handleSend /\ Len(emitted') = 1)))

\* A recognition has just failed under an open dialog of text mode.
C23_Witness ==
    /\ emitted # << >>
    /\ emitted[1].call = "console.error"
    /\ DialogShown
    /\ view.editMode = "text"
    /\ ~view.isRecognizing

\* C24: the selection menu and the edit dialog are never shown together;
\* while either is shown the committed selection rectangle is not null and
\* is at least 10 wide and 10 high; while neither is shown the committed
\* selection rectangle is null.
C24_MenuOrDialog ==
    /\ ~(MenuShown /\ DialogShown)
    /\ (MenuShown \/ DialogShown)
          => /\ view.selectionRect # Null
             /\ view.selectionRect.width >= 10
             /\ view.selectionRect.height >= 10
    /\ ~(MenuShown \/ DialogShown) => view.selectionRect = Null

\* The dialog is open, after the menu, on a selection dragged up and to the
\* left, while the recognition of an earlier selection is in flight.
C24_Witness ==
    /\ DialogShown
    /\ view.selectionRect = calculateRect([x |-> 60, y |-> 60], [x |-> 10, y |-> 10])
    /\ view.selectionStart = [x |-> 60, y |-> 60]
    /\ recog # {}
    /\ view.selectionRect \notin recog

\* C25: the result of a recognition that settles under a dialog opened
\* later, for another selection or in free mode, neither changes inputText
\* nor clears isRecognizing.
C25_LateResultIgnored ==
    [][\A rect \in Rects :
         (/\ rect \in recog
          /\ rect \notin recog'
          /\ DialogShown
          /\ (view.selectionRect # rect \/ view.editMode = "free"))
            => /\ view'.inputText = view.inputText
               /\ view'.isRecognizing = view.isRecognizing]_vars

\* text is s without the spaces at its ends.
IsTrimOf(text, s) ==
    /\ text # ""
    /\ CharAt(text, 1) # " "
    /\ CharAt(text, Len(text)) # " "
    /\ \E a, b \in {"", " ", "  "} : a \o text \o b = s

\* C27: onEditRequest is called only by a handleSend that finds a committed
\* selection rectangle and an input that is not empty when trimmed; it is
\* then called once, with that rectangle, the trimmed text, the size of the
\* container and the edit mode, and afterwards the dialog is closed,
\* inputText is empty and the selection rectangle is null. A handleSend
\* whose guard fails emits nothing and changes nothing.
C27_SendOnce ==
    /\ [][(emitted' # << >> /\ emitted'[1].call = "onEditRequest")
             => /\ view.selectionRect # Null
                /\ Trim(view.inputText) # ""
                /\ Len(emitted') = 1
                /\ emitted'[1].arg.rect = view.selectionRect
                /\ IsTrimOf(emitted'[1].arg.text, view.inputText)
                /\ emitted'[1].arg.containerWidth = view.containerSize.width
                /\ emitted'[1].arg.containerHeight = view.containerSize.height
                /\ emitted'[1].arg.mode = view.editMode
                /\ ~DialogShown'
                /\ ~view'.showInput
                /\ view'.inputText = ""
                /\ view'.selectionRect = Null]_vars
    /\ [][(handleSend /\ view.onEditRequest
             /\ view.selectionRect # Null /\ Trim(view.inputText) # "")
             => (emitted' # << >> /\ emitted'[1].call = "onEditRequest")]_vars
    /\ [][(handleSend /\ (view.selectionRect = Null \/ Trim(view.inputText) = ""))
             => (emitted' = << >> /\ view' = view /\ recog' = recog)]_vars

\* An instruction typed with spaces around it has just been sent for a
\* selection in free mode.
C27_Witness ==
    /\ emitted # << >>
    /\ emitted[1].call = "onEditRequest"
    /\ emitted[1].arg.text = "new text"
    /\ emitted[1].arg.mode = "free"
    /\ emitted[1].arg.containerWidth = 800
    /\ view.selectionRect = Null

\* C26: an edit that succeeds leaves as originalSrc the image that was
\* shown just before the new image replaced it, with the comparison off; an
\* edit that fails leaves imageSrc, originalSrc and isComparing as they
\* were; whether or not another edit was requested in between.
C26_OriginalIsPrevious ==
    [][\A i \in DOMAIN edits :
         (edits[i].state = "editing" /\ edits'[i].state = "settled")
            => IF app'.imageSrc # app.imageSrc
               THEN /\ app'.originalSrc = JsStr(app.imageSrc)
                    /\ ~app'.isComparing
               ELSE /\ app'.originalSrc = app.originalSrc
                    /\ app'.isComparing = app.isComparing]_vars

\* The fields that request c must have are there: image_base64 for
\* /api/ocr; image_base64, rect and text for /api/banana.
FieldsGiven(c) ==
    IF input[c].origin = "ocr" THEN Truthy(input[c].json.image_base64)
    ELSE Truthy(input[c].json.image_base64) /\ Truthy(input[c].json.rect) /\ Truthy(input[c].json.text)

\* The credential of the endpoint of request c is configured.
CredentialGiven(c) ==
    IF input[c].origin = "ocr"
    THEN Truthy(input[c].env.VOL_ACCESS_KEY_ID) /\ Truthy(input[c].env.VOL_SECRET_ACCESS_KEY)
    ELSE Truthy(input[c].env.OPENROUTER_API_KEY)

CaughtAnswer(c, r, messages) ==
    /\ r.status = 500
    /\ DOMAIN r = {"status", "error", "details"}
    /\ r.error = (IF input[c].origin = "ocr" THEN "OCR request failed"
                  ELSE "Image editing request failed")
    /\ r.details \in messages

\* C29: what is thrown while a request is handled (a body that cannot be
\* parsed, a failure of the signer, a network error, an answer of the
\* provider that is no JSON) is answered 500 with error and details;
\* /api/banana answers 500 with error and details whenever the status of
\* the provider is not ok; /api/ocr relays every JSON body of the provider
\* with status 200, whatever the provider's status.
C29_OutcomeMapping ==
    /\ [][\A c \in Calls :
            (pc[c] # "responded" /\ pc'[c] = "responded")
              => /\ (pc[c] = "idle" /\ input[c].json.t = "invalid")
                       => CaughtAnswer(c, resp'[c], {"Unexpected token in JSON"})
                 /\ pc[c] = "rejected" => CaughtAnswer(c, resp'[c], {result[c].message})
                 /\ pc[c] = "fetching"
                       => \/ /\ resp'[c].status = 200
                             /\ \E up \in UpstreamOutcomes :
                                   up.kind = "json" /\ resp'[c].json = up.body
                          \/ CaughtAnswer(c, resp'[c],
                                          {"Network connection lost", "Unexpected token in JSON"})
                 /\ pc[c] = "asking"
                       => \/ /\ resp'[c].status = 200
                             /\ \E up \in BananaUpstreamOutcomes :
                                   /\ up.kind = "json" /\ ResponseOk(up.status)
                                   /\ resp'[c].json = up.body
                          \/ /\ resp'[c].status = 500
                             /\ resp'[c].error = "OpenRouter API request failed"
                             /\ \E up \in BananaUpstreamOutcomes :
                                   ~ResponseOk(up.status) /\ resp'[c].details = up.body
                          \/ CaughtAnswer(c, resp'[c],
                                          {"Network connection lost", "Unexpected token in JSON"})]_vars
    /\ [](\A c \in Calls :
            /\ pc[c] = "fetching"
                 => \A up \in {u \in UpstreamOutcomes : u.kind = "json"} :
                       ENABLED (OcrUpstream(c) /\ resp'[c] = [status |-> 200, json |-> up.body])
            /\ pc[c] = "asking"
                 => \A up \in {u \in BananaUpstreamOutcomes : ~ResponseOk(u.status)} :
                       ENABLED (BananaUpstream(c) /\ resp'[c].status = 500
                                  /\ (up.kind # "network error" => resp'[c].details = up.body)))

\* /api/ocr has relayed the refusal of the provider with status 200, and
\* /api/banana has answered the refusal of its provider with 500.
C29_Witness ==
    /\ input[1].origin = "ocr"
    /\ resp[1] # None /\ resp[1].status = 200
    /\ resp[1].json = "{code:50400,message:Access Denied}"
    /\ input[2].origin = "banana"
    /\ resp[2] # None /\ resp[2].status = 500
    /\ resp[2].error = "OpenRouter API request failed"
    /\ resp[2].details = "{error:{code:402,message:Insufficient credits}}"

====
